---- MODULE Spec2Model ----
(***************************************************************************)
(* Model of the ulogger / ulog_console decode pipeline:                    *)
(*   - PersistantIndexCircularBuffer   (src/src/ulog_console/buffer.py)    *)
(*   - ApplicationLogs.decode_packet   (src/src/ulogger/logs.py)           *)
(*   - the artifact watcher            (src/src/ulogger/elf_reader.py)     *)
(*   - the serial reader thread        (src/src/ulog_console/serial_reader.py) *)
(***************************************************************************)
EXTENDS Integers, Sequences, FiniteSets, TLC

VARIABLES
    \* ---- PersistantIndexCircularBuffer fields (buffer.py:5-12)
    maxlen, buffer, abs_indexes, start, end, size, next_abs_index,
    \* ghost: every item ever appended, in append order (appended[k+1] is
    \* the item of the append with absolute index k)
    appended,
    \* ghost: the largest absolute index that has ever been below head
    \* (NoIndex while nothing was overwritten)
    fallen,
    \* the result of the last read operation applied to the buffer
    ret,
    \* ---- ApplicationLogs fields (logs.py:212-221)
    entries, elf_ready, endianness,
    pending_log_id, pending_args, pending_string_chunks, incomplete_log_queue,
    \* ---- the decoder's output stream: every non-None result decode_packet
    \* has returned, in return order, each with two ghost tags:
    \*   seq = ordinal of the first-frame that began the entry (0: none)
    \*   by  = for an INCOMPLETE entry, ordinal of the first-frame that
    \*         displaced the entry it reports (0: not an INCOMPLETE entry)
    out,
    \* ghost: the log ids of the first-frames fed so far (header flag clear)
    firsts,
    \* ghost: seq tag of the pending entry, and the by tags of the queued
    \* INCOMPLETE entries (parallel to incomplete_log_queue)
    pendSeq, iqBy,
    \* ghost: the sender's position in the wire protocol, and whether every
    \* frame fed so far conformed to it
    snd, clean,
    \* number of frames fed so far
    nfed,
    \* ghost: whether the last decode_packet call rejected a continuation
    \* frame as unexpected, and whether it was a first-frame that, right after
    \* such a rejection, displaced a pending entry
    lastcall,
    \* ---- the artifact on disk: which build it holds and its mtime
    file,
    \* ---- artifact watcher, elf_reader.Reader (elf_reader.py:12-18):
    \* last_mtime, and the position and locals of its thread: wpc,
    \* mtime read by run (wmtime), section data and offset of reset
    \* (wdata, woffset), digest computed by load_elf (wdigest)
    last_mtime, wpc, wmtime, wdata, woffset, wdigest,
    \* ---- ControlMsg members' sha256 attribute (messages.py:14-16)
    ctl_sha256,
    \* ---- serial reader, serial_reader.Reader: bad_data
    bad_data,
    \* ---- the dispatch queue (every item put, in put order; each with the
    \* ghost tag gen) and the callbacks scheduled on the event loop with
    \* call_soon_threadsafe and not yet run
    queue, loopq,
    \* ghost: number of reset() calls begun (the table generation); the
    \* generation in which the pending entry was begun; the entries list seen
    \* by the last table lookup of decode_packet
    gen, pendGen, lastLookup,
    \* ghost: the watcher's state in the terms of its transition table:
    \* initial, waiting, ready or failed
    wstate,
    \* ---- the last call of a function checked on its own: its name, its
    \* argument and what it returned or raised
    call,
    \* ---- a log statement executed by the firmware: its log id and argument
    \* values, the raw frames of it still on the wire, and what the decoder
    \* has returned for it
    rt,
    \* ---- the serial line: the bytes waiting to be read; ghost: the frames
    \* and runs of garbage the line was made of, and the result of each pass
    \* of the reader's loop so far
    stream, items, rx,
    \* ---- ControlMsg.FAILED_TO_READ_ELF.message (messages.py:15, 29)
    ctl_message,
    \* ghost: number of artifact loads that have failed
    nfailed,
    \* ---- the consumer, Viewer.process_queue: how many items of the dispatch
    \* queue it has taken, and the items appended to its log_buffer
    qhead, log_buffer,
    \* ---- the --clear option of the viewer (cli.py:10)
    args_clear,
    \* ---- which of the two packages' artifact watcher runs: "ulogger"
    \* (ulogger/elf_reader.py) or "ulog_console" (ulog_console/elf_reader.py)
    pkg,
    \* ---- the serial reader subprocess of ulogger (reader_new.py:153-173):
    \* _stop_event, the holder of _retry_lock, the retry_count of
    \* _pending_port_open, the state of self.serial, the messages put on
    \* status_queue, and the position of each of its threads
    stop_event, retry_lock, pending_port_open, serial, status_queue, tpc,
    \* ---- the frame path of that subprocess: the deque of its BufferedQueue
    \* (reader_new.py:72), _first_timestamp and _last_timestamp_us
    \* (reader_new.py:166-167), and rd: bad_data (reader_new.py:158), the
    \* reading of time.perf_counter in microseconds, and ghosts (the number
    \* of _put_frame calls, and what the last one did)
    data_buffer, first_timestamp, last_timestamp_us, rd,
    \* ---- the two threads of the curses viewer (viewer.py:423-427): the
    \* holder and depth of buffer_lock (a threading.RLock, viewer.py:62), and
    \* the position of each thread with what the consumer is appending and
    \* the ghost flag torn (a read ran between the statements of an append)
    buffer_lock, vpc

bufVars == <<maxlen, buffer, abs_indexes, start, end, size, next_abs_index, appended, fallen, ret>>

logVars == <<entries, elf_ready, endianness,
             pending_log_id, pending_args, pending_string_chunks, incomplete_log_queue>>

decVars == <<out, firsts, pendSeq, iqBy, snd, clean, nfed, lastcall>>

sysVars == <<file, last_mtime, wpc, wmtime, wdata, woffset, wdigest, ctl_sha256,
             bad_data, queue, loopq, gen, pendGen, lastLookup, wstate>>

\* state no thread of the program touches
portVars == <<stop_event, retry_lock, pending_port_open, serial, status_queue, tpc,
              data_buffer, first_timestamp, last_timestamp_us, rd>>
auxVars == <<call, rt, stream, items, rx, ctl_message, nfailed, qhead, log_buffer, args_clear, pkg, buffer_lock, vpc, portVars>>

vars == <<bufVars, logVars, decVars, sysVars, auxVars>>

\* Python's None (items are strings, so None is a string no item equals)
None == "None"

Max(a, b) == IF a >= b THEN a ELSE b
Min(a, b) == IF a <= b THEN a ELSE b

(***************************************************************************)
(*                 Ring buffer: PersistantIndexCircularBuffer              *)
(***************************************************************************)

\* ---- bounds of the ring-buffer model
MaxCap == 4
MaxAppends == 10
MaxCount == 2

\* the items callers append (log entries or notes; their content is opaque
\* to the buffer)
Items == {"x", "y"}

\* abs_indexes slots start as None (buffer.py:8); a slot that holds None is
\* modelled by an index no append ever hands out
NoIndex == 0 - 1

\* __len__ (buffer.py:26-27)
BufLen == size

\* head_abs_index (buffer.py:29-32)
head_abs_index == IF size = 0 THEN NoIndex ELSE abs_indexes[start]

\* tail_abs_index (buffer.py:34-37)
tail_abs_index == IF size = 0 THEN NoIndex ELSE abs_indexes[(end - 1) % maxlen]

\* the for loop of slice_by_abs_index (buffer.py:51-56)
RECURSIVE SliceLoop(_, _, _, _, _, _)
SliceLoop(i, count, idx, head, tail, result) ==
    IF i >= count THEN result
    ELSE LET buf_idx == (start + idx + i) % maxlen
             cur_abs == head + idx + i
         IN IF cur_abs > tail \/ i >= size THEN result
            ELSE SliceLoop(i + 1, count, idx, head, tail, Append(result, buffer[buf_idx]))

\* mutant of slice_by_abs_index: start_abs is not clipped to head
slice_by_abs_index_NoClip(start_abs, count) ==
    IF size = 0 THEN <<>>
    ELSE LET head == head_abs_index
             tail == tail_abs_index
         IN IF start_abs > tail THEN <<>>
            ELSE SliceLoop(0, count, start_abs - head, head, tail, <<>>)

\* slice_by_abs_index (buffer.py:39-57)
slice_by_abs_index(start_abs, count) ==
    IF size = 0 THEN <<>>
    ELSE LET head == head_abs_index
             tail == tail_abs_index
             s    == IF start_abs < head THEN head ELSE start_abs
         IN IF s > tail THEN <<>>
            ELSE SliceLoop(0, count, s - head, head, tail, <<>>)

\* the for loop of latest_slice (buffer.py:65-67)
RECURSIVE LatestLoop(_, _)
LatestLoop(i, result) ==
    IF i >= size THEN result
    ELSE LatestLoop(i + 1, Append(result, buffer[(start + i) % maxlen]))

\* mutant of latest_slice: the first index is one slot too old
latest_slice_OffByOne(count) ==
    IF size = 0 THEN <<>>
    ELSE LatestLoop(Max(0, size - count - 1), <<>>)

\* latest_slice (buffer.py:59-68)
latest_slice(count) ==
    IF size = 0 THEN <<>>
    ELSE LatestLoop(Max(0, size - count), <<>>)

\* mutant of index_from_abs_index: an index below head is not rejected
index_from_abs_index_NoHead(abs_index) ==
    IF size = 0 THEN NoIndex
    ELSE LET head == head_abs_index
             tail == tail_abs_index
         IN IF abs_index > tail THEN NoIndex
            ELSE (start + (abs_index - head)) % maxlen

\* index_from_abs_index (buffer.py:79-95); None is modelled as NoIndex
index_from_abs_index(abs_index) ==
    IF size = 0 THEN NoIndex
    ELSE LET head == head_abs_index
             tail == tail_abs_index
         IN IF abs_index < head \/ abs_index > tail THEN NoIndex
            ELSE (start + (abs_index - head)) % maxlen

\* __getitem__ (buffer.py:97-107): the item, or the IndexError raised
GetItem(abs_index) ==
    LET buf_idx == index_from_abs_index(abs_index)
    IN IF buf_idx = NoIndex THEN [raised |-> TRUE, val |-> "IndexError"]
       ELSE [raised |-> FALSE, val |-> buffer[buf_idx]]

\* __init__ (buffer.py:5-12) for a capacity cap
BufInit(cap) ==
    /\ maxlen = cap
    /\ buffer = [i \in 0..(cap - 1) |-> None]
    /\ abs_indexes = [i \in 0..(cap - 1) |-> NoIndex]
    /\ start = 0
    /\ end = 0
    /\ size = 0
    /\ next_abs_index = 0
    /\ appended = <<>>
    /\ fallen = NoIndex
    /\ ret = [op |-> "none"]

\* mutant of AppendGrows: the buffer is taken to be full one slot early
AppendGrows_OffByOne == size + 1 < maxlen

\* the test of append that decides between growing and overwriting
\* (buffer.py:19)
AppendGrows == size < maxlen

\* mutant of NextStart: the oldest slot is overwritten but start stays
NextStart_Stuck == start

\* the start pointer after an overwriting append (buffer.py:22)
NextStart == (start + 1) % maxlen

\* append (buffer.py:14-24)
BufAppend(item) ==
    /\ next_abs_index < MaxAppends
    /\ buffer' = [buffer EXCEPT ![end] = item]
    /\ abs_indexes' = [abs_indexes EXCEPT ![end] = next_abs_index]
    /\ end' = (end + 1) % maxlen
    /\ IF AppendGrows
          THEN size' = size + 1 /\ start' = start
          ELSE start' = NextStart /\ size' = size
    /\ next_abs_index' = next_abs_index + 1
    /\ appended' = Append(appended, item)
    /\ fallen' = Max(fallen, head_abs_index' - 1)
    /\ ret' = [op |-> "none"]
    /\ UNCHANGED <<maxlen, logVars, decVars, sysVars, auxVars>>

Append_ == \E item \in Items : BufAppend(item)

\* the absolute indices and counts the read operations are called with
AbsArgs == (0 - 1)..MaxAppends
CountArgs == (0 - 1)..(MaxCount + 1)

\* a read leaves the buffer alone; its result is held in ret until the next
\* append
BufRead(r) ==
    /\ ret.op = "none"
    /\ ret' = r
    /\ UNCHANGED <<maxlen, buffer, abs_indexes, start, end, size, next_abs_index, appended, fallen,
                   logVars, decVars, sysVars, auxVars>>

\* a caller evaluates buffer[abs_index]
Get == \E a \in AbsArgs : BufRead([op |-> "get", arg |-> a, res |-> GetItem(a)])

\* a caller evaluates latest_slice(count)
Latest == \E n \in CountArgs : BufRead([op |-> "latest", arg |-> n, res |-> latest_slice(n)])

\* a caller evaluates slice_by_abs_index(start_abs, count)
Slice ==
    \E a \in AbsArgs :
      \E n \in CountArgs :
        BufRead([op |-> "slice", arg |-> <<a, n>>, res |-> slice_by_abs_index(a, n)])

(***************************************************************************)
(*              Type registry and symbol table (logs.py:13-177)            *)
(***************************************************************************)

\* wire bytes
Byte == 0..255

\* TypeXX.length (logs.py:13-88); TypeStr is variable length (0)
TypeLen(t) ==
    CASE t = "TypeNone"    -> 0
      [] t = "TypeU8"      -> 1
      [] t = "TypeS8"      -> 1
      [] t = "TypeB8"      -> 1
      [] t = "TypeU16"     -> 2
      [] t = "TypeS16"     -> 2
      [] t = "TypePtr16"   -> 2
      [] t = "TypeU32"     -> 4
      [] t = "TypeS32"     -> 4
      [] t = "TypeFloat32" -> 4
      [] t = "TypeStr"     -> 0

\* TYPE_MAP of decode_typecode (logs.py:103-115); codes 0x0B..0x0F have no
\* entry (TYPE_MAP.get gives None)
TYPE_MAP(code) ==
    CASE code = 0  -> "TypeNone"
      [] code = 1  -> "TypeU8"
      [] code = 2  -> "TypeS8"
      [] code = 3  -> "TypeB8"
      [] code = 4  -> "TypeU16"
      [] code = 5  -> "TypeS16"
      [] code = 6  -> "TypePtr16"
      [] code = 7  -> "TypeU32"
      [] code = 8  -> "TypeS32"
      [] code = 9  -> "TypeFloat32"
      [] code = 10 -> "TypeStr"
      [] OTHER     -> None

\* mutant of NibbleAt: the word is walked from its most significant nibble
NibbleAt_FromTop(typecode, i) == (typecode \div (16 ^ (7 - i))) % 16

\* code = (typecode >> (i * 4)) & 0x0F (logs.py:121)
NibbleAt(typecode, i) == (typecode \div (16 ^ i)) % 16

\* the nibble loop of decode_typecode (logs.py:120-132): i is the nibble
\* index, the result is the types found, or raised for an unknown code
RECURSIVE TypecodeLoop(_, _, _, _)
TypecodeLoop(typecode, i, length, types) ==
    IF i >= 8 THEN [raised |-> FALSE, length |-> length, types |-> types]
    ELSE LET code == NibbleAt(typecode, i)
         IN IF code = 0 THEN [raised |-> FALSE, length |-> length, types |-> types]
            ELSE IF TYPE_MAP(code) = None
                 THEN [raised |-> TRUE, length |-> 0, types |-> <<>>]
                 ELSE TypecodeLoop(typecode, i + 1, length + TypeLen(TYPE_MAP(code)),
                                   Append(types, TYPE_MAP(code)))

\* decode_typecode (logs.py:98-134)
decode_typecode(typecode) == TypecodeLoop(typecode, 0, 0, <<>>)

\* Log.__init__ (logs.py:145-152)
Log(level, line, filename, fmt, payload_length, types) ==
    [level |-> level, line |-> line, filename |-> filename, fmt |-> fmt,
     payload_length |-> payload_length, types |-> types]

\* Log.from_elf_data (logs.py:154-177) on one record of the .logs section;
\* a record is held with its integer fields already split out, its source
\* path as the sequence of its components and its two C strings as strings
\* (os.path.basename keeps the last component)
from_elf_data(rec) ==
    LET tc == decode_typecode(rec.typecode)
    IN Log(rec.level, rec.line, rec.path[Len(rec.path)], rec.fmt, tc.length, tc.types)

\* int.from_bytes(data, endianness) (logs.py:277)
RECURSIVE IntFromBytes(_, _)
IntFromBytes(data, endian) ==
    IF data = <<>> THEN 0
    ELSE IF endian = "little"
         THEN Head(data) + 256 * IntFromBytes(Tail(data), endian)
         ELSE Head(data) * (256 ^ (Len(data) - 1)) + IntFromBytes(Tail(data), endian)

\* the bytes of data from the most significant to the least significant
RECURSIVE Reverse(_)
Reverse(q) == IF q = <<>> THEN <<>> ELSE Append(Reverse(Tail(q)), Head(q))

BigEndian(data, endian) == IF endian = "little" THEN Reverse(data) ELSE data

\* struct.unpack(endian_prefix + arg_type.unpack_format, data)[0]
\* (logs.py:371-374); a value is a record tagged with its Python type.
\* Formats b, h, i read two's complement (the most significant byte carries
\* the sign), ? reads a bool, f reads an IEEE-754 binary32, held as its
\* sign, biased exponent and fraction.
StructUnpack(t, data, endian) ==
    LET u == IntFromBytes(data, endian)
        be == BigEndian(data, endian)
        top == be[1]
    IN CASE t \in {"TypeU8", "TypeU16", "TypePtr16", "TypeU32"} -> [int |-> u]
         [] t \in {"TypeS8", "TypeS16", "TypeS32"} ->
                [int |-> IF top >= 128
                         THEN (top - 256) * (256 ^ (Len(data) - 1))
                              + IntFromBytes(Tail(be), "big")
                         ELSE u]
         [] t = "TypeB8" -> [bool |-> u # 0]
         [] t = "TypeFloat32" ->
                [float |-> [sign |-> top \div 128,
                            exp  |-> (top % 128) * 2 + be[2] \div 128,
                            frac |-> (be[2] % 128) * 65536 + be[3] * 256 + be[4]]]

\* bytes.decode(errors='replace') on single-byte code points: an ASCII byte
\* is its own code point, any other lone byte becomes U+FFFD
BytesDecode(data) == [i \in 1..Len(data) |-> IF data[i] < 128 THEN data[i] ELSE 65533]

\* data.find(b'\x00'): 0-based position of the first null byte, -1 if none
RECURSIVE FindNull(_, _)
FindNull(data, i) ==
    IF i > Len(data) THEN 0 - 1
    ELSE IF data[i] = 0 THEN i - 1
    ELSE FindNull(data, i + 1)

\* mutant of TypeStr_from_bytes: the bytes are not cut at the null
TypeStr_from_bytes_Whole(data) == [str |-> BytesDecode(data)]

\* TypeStr.from_bytes (logs.py:89-95)
TypeStr_from_bytes(data) ==
    LET null_idx == FindNull(data, 1)
    IN IF null_idx # 0 - 1
       THEN [str |-> BytesDecode(SubSeq(data, 1, null_idx))]
       ELSE [str |-> BytesDecode(data)]

\* b''.join(chunks) (logs.py:361)
RECURSIVE Join(_)
Join(chunks) == IF chunks = <<>> THEN <<>> ELSE Head(chunks) \o Join(Tail(chunks))

(***************************************************************************)
(*          ApplicationLogs: reassembler state and decode_packet           *)
(***************************************************************************)

\* _pending_log_id is None (logs.py:217); log ids are naturals, so None is
\* modelled by an id no frame carries
NoLog == 0 - 1

\* reserved log ids and the continuation flag (logs.py:280-293)
OVERRUN_ID == 32767
START_ID == 32766
CONT_FLAG == 32768
ID_MASK == 32767

\* ApplicationLogs.__init__ (logs.py:212-221); _is_first_packet is written
\* but never read and is left out
LogsInit ==
    /\ entries = <<>>
    /\ elf_ready = FALSE
    /\ endianness = "little"
    /\ pending_log_id = NoLog
    /\ pending_args = <<>>
    /\ pending_string_chunks = <<>>
    /\ incomplete_log_queue = <<>>

\* the reassembly fields decode_packet reads and writes, as one record
PendingState ==
    [pid |-> pending_log_id, args |-> pending_args,
     chunks |-> pending_string_chunks, iq |-> incomplete_log_queue]

\* mutant of ClearPending: the collected arguments are kept
ClearPending_KeepArgs(st) == [st EXCEPT !.pid = NoLog, !.chunks = <<>>]

\* "reset" of the pending entry (logs.py:345-348, 383-386)
ClearPending(st) == [st EXCEPT !.pid = NoLog, !.args = <<>>, !.chunks = <<>>]

\* the outcomes of one decode_packet call: an entry returned, None
\* returned, or an exception raised; the reassembly state left behind; and
\* which branches ran (popped: line 267, reserved: lines 289-295,
\* lookup: line 296, began: lines 314-317, displaced: line 311,
\* unexpected: lines 323-330)
Outcome(kind, result, st, flags) ==
    [kind |-> kind, result |-> result, st |-> st,
     popped |-> "popped" \in flags, reserved |-> "reserved" \in flags,
     lookup |-> "lookup" \in flags, began |-> "began" \in flags,
     displaced |-> "displaced" \in flags, unexpected |-> "unexpected" \in flags]
Returned(result, st, flags) == Outcome("entry", result, st, flags)
ReturnedNone(st, flags) == Outcome("none", None, st, flags)
Raised(exc, st, flags) == Outcome("raise", exc, st, flags)

\* the (Log, values) tuple decode_packet returns
Result(entry, values) == [logmeta |-> entry, data |-> values]

\* the INCOMPLETE entry built for a displaced pending log (logs.py:307-311);
\* the formatted message is held as the values formatted into it
IncompleteEntry(pid, nargs) ==
    LET prev_entry == entries[pid + 1]
    IN Log(0, 0, "INCOMPLETE",
           [log_id |-> pid, filename |-> prev_entry.filename, line |-> prev_entry.line,
            expected |-> Len(prev_entry.types), got |-> nargs],
           0, <<>>)

\* mutant of AllArgsReceived: an entry ends with its first argument
AllArgsReceived_Early(args, entry) == Len(args) >= 1

\* the test that ends an entry (logs.py:381)
AllArgsReceived(args, entry) == Len(args) = Len(entry.types)

\* lines 380-390: return the entry when all arguments are in, else None
FinishArg(entry, st, flags) ==
    IF AllArgsReceived(st.args, entry)
    THEN Returned(Result(entry, st.args), ClearPending(st), flags)
    ELSE ReturnedNone(st, flags)

\* lines 332-390: decode the argument carried by this packet
DecodeArg(entry, arg_data, st, flags) ==
    LET arg_idx == Len(st.args)
    IN IF arg_idx >= Len(entry.types)
       THEN Returned(Result(entry, st.args), ClearPending(st), flags)
       ELSE LET arg_type == entry.types[arg_idx + 1]
            IN IF arg_type = "TypeStr"
               THEN LET chunks == Append(st.chunks, arg_data)
                    IN IF \E i \in 1..Len(arg_data) : arg_data[i] = 0
                       THEN FinishArg(entry,
                                [st EXCEPT !.args = Append(st.args, TypeStr_from_bytes(Join(chunks))),
                                           !.chunks = <<>>], flags)
                       ELSE ReturnedNone([st EXCEPT !.chunks = chunks], flags)
               ELSE IF Len(arg_data) >= TypeLen(arg_type)
                    THEN FinishArg(entry,
                             [st EXCEPT !.args = Append(st.args,
                                 StructUnpack(arg_type, SubSeq(arg_data, 1, TypeLen(arg_type)), endianness))],
                             flags)
                    ELSE Raised("ValueError", st, flags)

\* lines 302-330: first packet starts a new entry (queueing an INCOMPLETE
\* entry for a displaced one), a continuation must match the pending entry
StartOrContinue(entry, is_first_packet, log_id, arg_data, st) ==
    IF is_first_packet
    THEN IF st.pid # NoLog
         THEN IF st.pid >= Len(entries)
              THEN Raised("IndexError", st, {"lookup"})
              ELSE DecodeArg(entry, arg_data,
                       [pid |-> log_id, args |-> <<>>, chunks |-> <<>>,
                        iq |-> Append(st.iq, Result(IncompleteEntry(st.pid, Len(st.args)), st.args))],
                       {"lookup", "began", "displaced"})
         ELSE DecodeArg(entry, arg_data,
                  [pid |-> log_id, args |-> <<>>, chunks |-> <<>>, iq |-> st.iq],
                  {"lookup", "began"})
    ELSE IF st.pid = NoLog THEN Raised("ValueError", st, {"lookup", "unexpected"})
         ELSE IF st.pid # log_id THEN Raised("ValueError", st, {"lookup", "unexpected"})
         ELSE DecodeArg(entry, arg_data, st, {"lookup"})

\* "#" * 79 (logs.py:294)
START_FMT == "###############################################################################"

\* mutant of OverrunCount: the payload is not read
OverrunCount_Zero(arg_data) == 0

\* the count of an OVERRUN frame (logs.py:291)
OverrunCount(arg_data) == IF Len(arg_data) >= 1 THEN arg_data[1] ELSE 0

\* the body of decode_packet (logs.py:265-390) run on the reassembly
\* state st
decode_packet_on(data, st) ==
       IF st.iq # <<>>
       THEN Returned(Head(st.iq), [st EXCEPT !.iq = Tail(st.iq)], {"popped"})
       ELSE IF ~elf_ready THEN Raised("ElfNotReady", st, {})
       ELSE IF Len(data) < 2 THEN ReturnedNone(st, {})
       ELSE LET log_id_raw == IntFromBytes(SubSeq(data, 1, 2), endianness)
                is_first_packet == (log_id_raw \div CONT_FLAG) % 2 = 0
                log_id == log_id_raw % (ID_MASK + 1)
                arg_data == SubSeq(data, 3, Len(data))
            IN IF log_id = OVERRUN_ID
               THEN Returned(
                        Result(Log(0, 0, "OVERRUN", "< ------------------ {} Logs lost ------------------ >",
                                   1, <<"TypeU8">>),
                               << [int |-> OverrunCount(arg_data)] >>),
                        st, {"reserved"})
               ELSE IF log_id = START_ID
               THEN Returned(Result(Log(0, 0, "START", START_FMT, 0, <<>>), <<>>), st, {"reserved"})
               ELSE IF log_id >= Len(entries) THEN Raised("ValueError", st, {"lookup"})
               ELSE StartOrContinue(entries[log_id + 1], is_first_packet, log_id, arg_data, st)

\* decode_packet (logs.py:250-390)
decode_packet(data) == decode_packet_on(data, PendingState)

\* decode_frame (logs.py:392-397)
decode_frame(data) == decode_packet(data)

(***************************************************************************)
(*                 Symbol artifacts and ApplicationLogs.reset              *)
(***************************************************************************)

\* one record of a .logs section
Rec(level, line, typecode, path, fmt) ==
    [level |-> level, line |-> line, typecode |-> typecode, path |-> path, fmt |-> fmt]

\* the .logs section of the first build of the firmware: four log sites
\* with type vectors [u16, u8], [u8], [str] and []
SectionA ==
    << Rec(3, 10, 20, <<"src", "main.c">>, "v={} n={}"),
       Rec(4, 20, 1,  <<"src", "main.c">>, "val={}"),
       Rec(2, 30, 10, <<"src", "drv", "uart.c">>, "msg={}"),
       Rec(5, 40, 0,  <<"src", "drv", "uart.c">>, "tick") >>

\* ApplicationLogs.reset (logs.py:223-248) run to completion on a section
\* whose records are all complete and all carry known type codes
reset(section, little_endian) ==
    /\ entries' = [i \in 1..Len(section) |-> from_elf_data(section[i])]
    /\ endianness' = IF little_endian THEN "little" ELSE "big"
    /\ elf_ready' = TRUE
    /\ UNCHANGED <<pending_log_id, pending_args, pending_string_chunks, incomplete_log_queue>>

(***************************************************************************)
(*                    Frames and the sender's protocol                     *)
(***************************************************************************)

\* ---- bound of the decoder model: number of frames fed
MaxFrames == 4

\* the 16-bit header of a frame, little-endian (the byte order of the
\* artifacts above)
Hdr(first, id) ==
    LET raw == IF first THEN id ELSE id + CONT_FLAG
    IN << raw % 256, raw \div 256 >>

\* the decoded frames fed to decode_packet
DecFrames ==
    { Hdr(TRUE, 0) \o <<52, 18>>,       \* id 0 first, u16 0x1234
      Hdr(FALSE, 0) \o <<7>>,           \* id 0 continuation, u8 7
      Hdr(TRUE, 1) \o <<1>>,            \* id 1 first, u8 1
      Hdr(FALSE, 1) \o <<1>>,           \* id 1 continuation
      Hdr(TRUE, 1),                     \* id 1 first, payload missing
      Hdr(TRUE, 2) \o <<104>>,          \* id 2 first, "h"
      Hdr(FALSE, 2) \o <<111, 0>>,      \* id 2 continuation, "o\0"
      Hdr(FALSE, 2) \o <<0>>,           \* id 2 continuation, "\0"
      Hdr(FALSE, 2) \o <<255>>,         \* id 2 continuation, a byte that is not UTF-8
      Hdr(TRUE, 3),                     \* id 3 first, no argument
      Hdr(TRUE, 4) \o <<1>>,            \* id 4: not in the table
      Hdr(TRUE, START_ID),
      Hdr(FALSE, START_ID),
      Hdr(TRUE, OVERRUN_ID) \o <<3>>,
      Hdr(FALSE, OVERRUN_ID) \o <<200>>,
      <<5>>,                            \* shorter than the header
      <<>> }

\* the type vectors the sender was built with
WireTypes(id) == from_elf_data(SectionA[id + 1]).types

\* the sender is between entries
NoSnd == [id |-> NoLog, idx |-> 0]

\* header fields of a frame as the sender wrote them
FrameFirst(data) == (IntFromBytes(SubSeq(data, 1, 2), "little") \div CONT_FLAG) % 2 = 0
FrameId(data) == IntFromBytes(SubSeq(data, 1, 2), "little") % CONT_FLAG
FramePayload(data) == SubSeq(data, 3, Len(data))

\* a payload the wire protocol allows for an argument of type t
PayloadOk(t, payload) == t = "TypeStr" \/ Len(payload) >= TypeLen(t)

\* the payload ends its argument
PayloadEnds(t, payload) == t # "TypeStr" \/ \E i \in 1..Len(payload) : payload[i] = 0

\* the frame is the one the wire protocol allows next: a first-frame between
\* entries, or the continuation frame of the entry under way
Conforming(data) ==
    /\ Len(data) >= 2
    /\ IF snd = NoSnd
       THEN /\ FrameFirst(data)
            /\ \/ FrameId(data) = START_ID
               \/ FrameId(data) = OVERRUN_ID /\ Len(FramePayload(data)) >= 1
               \/ /\ FrameId(data) < Len(SectionA)
                  /\ \/ WireTypes(FrameId(data)) = <<>>
                     \/ PayloadOk(WireTypes(FrameId(data))[1], FramePayload(data))
       ELSE /\ ~FrameFirst(data)
            /\ FrameId(data) = snd.id
            /\ PayloadOk(WireTypes(snd.id)[snd.idx + 1], FramePayload(data))

\* the sender's position after a conforming frame
SndAfter(data) ==
    LET id    == FrameId(data)
        idx   == IF snd = NoSnd THEN 0 ELSE snd.idx
    IN IF id \in {START_ID, OVERRUN_ID} THEN NoSnd
       ELSE IF WireTypes(id) = <<>> THEN NoSnd
       ELSE LET nxt == IF PayloadEnds(WireTypes(id)[idx + 1], FramePayload(data))
                          THEN idx + 1 ELSE idx
            IN IF nxt = Len(WireTypes(id)) THEN NoSnd ELSE [id |-> id, idx |-> nxt]

(***************************************************************************)
(*        The decoder driven frame by frame (single-threaded view)         *)
(***************************************************************************)

DecInit ==
    /\ out = <<>>
    /\ firsts = <<>>
    /\ pendSeq = 0
    /\ iqBy = <<>>
    /\ snd = NoSnd
    /\ clean = TRUE
    /\ nfed = 0
    /\ lastcall = [unexpected |-> FALSE, displacedAfter |-> FALSE,
                   data |-> <<>>, kind |-> "init", result |-> None,
                   popped |-> FALSE, reserved |-> FALSE, ready |-> FALSE,
                   before |-> [pid |-> NoLog, args |-> <<>>, chunks |-> <<>>, iq |-> <<>>]]

\* writes the reassembly state an outcome leaves behind
StorePending(o) ==
    /\ pending_log_id' = o.st.pid
    /\ pending_args' = o.st.args
    /\ pending_string_chunks' = o.st.chunks
    /\ incomplete_log_queue' = o.st.iq

\* the ghost bookkeeping of one decode_packet call on frame data
Bookkeep(data, o) ==
    LET isFirst == Len(data) >= 2 /\ FrameFirst(data)
        firsts2 == IF isFirst THEN Append(firsts, FrameId(data)) ELSE firsts
        seq2    == IF o.began THEN Len(firsts2) ELSE pendSeq
        tag     == IF o.popped THEN [seq |-> 0, by |-> Head(iqBy)]
                   ELSE IF o.reserved THEN [seq |-> IF isFirst THEN Len(firsts2) ELSE 0, by |-> 0]
                   ELSE [seq |-> seq2, by |-> 0]
        conf    == clean /\ elf_ready /\ Conforming(data)
    IN /\ firsts' = firsts2
       /\ out' = IF o.kind = "entry"
                 THEN Append(out, [logmeta |-> o.result.logmeta, data |-> o.result.data,
                                   seq |-> tag.seq, by |-> tag.by])
                 ELSE out
       /\ pendSeq' = IF o.st.pid = NoLog THEN 0 ELSE seq2
       /\ iqBy' = LET q == IF o.popped THEN Tail(iqBy) ELSE iqBy
                  IN IF o.displaced THEN Append(q, Len(firsts2)) ELSE q
       /\ clean' = conf
       /\ snd' = IF conf THEN SndAfter(data) ELSE snd
       /\ lastcall' = [unexpected |-> o.unexpected,
                       displacedAfter |-> lastcall.unexpected /\ isFirst /\ o.displaced,
                       data |-> data, kind |-> o.kind, result |-> o.result,
                       popped |-> o.popped, reserved |-> o.reserved, ready |-> elf_ready,
                       before |-> PendingState]

\* the artifact is loaded (Reader.load_elf calls reset, elf_reader.py:64)
Load ==
    /\ ~elf_ready
    /\ reset(SectionA, TRUE)
    /\ UNCHANGED <<auxVars, bufVars, decVars, sysVars>>

\* one frame is handed to decode_packet
Feed ==
    \E data \in DecFrames :
        LET o == decode_packet(data)
        IN /\ nfed < MaxFrames
           /\ nfed' = nfed + 1
           /\ StorePending(o)
           /\ Bookkeep(data, o)
           /\ UNCHANGED <<entries, elf_ready, endianness, bufVars, sysVars, auxVars>>

(***************************************************************************)
(*                              COBS framing                               *)
(***************************************************************************)

\* EOF, the COBS end of frame marker (serial_reader.py:9)
EOF == 166

\* encoded[a:b] of Python (0-based, end clipped to the length)
PySlice(seq, a, b) == SubSeq(seq, a + 1, Min(b, Len(seq)))

\* the while loop of cobs_decode (serial_reader.py:19-31); index is 0-based
RECURSIVE CobsLoop(_, _, _, _)
CobsLoop(encoded, index, endpos, decoded) ==
    IF index >= endpos THEN [raised |-> FALSE, data |-> decoded]
    ELSE LET code == encoded[index + 1]
         IN IF code = 0 \/ index + code > endpos + 1
            THEN [raised |-> TRUE, data |-> <<>>]
            ELSE LET index1 == index + 1
                     copied == decoded \o PySlice(encoded, index1, index1 + code - 1)
                     withEOF == IF code # 255 /\ index1 + code - 1 < endpos
                                THEN Append(copied, EOF) ELSE copied
                 IN CobsLoop(encoded, index1 + code - 1, endpos, withEOF)

\* cobs_decode (serial_reader.py:11-33)
cobs_decode(encoded) ==
    IF encoded = <<>> \/ encoded[Len(encoded)] # EOF
    THEN [raised |-> TRUE, data |-> <<>>]
    ELSE CobsLoop(encoded, 0, Len(encoded) - 1, <<>>)

(***************************************************************************)
(*     Artifact watcher, serial reader thread and dispatch queue           *)
(***************************************************************************)

\* ---- bounds of the threaded model: rebuilds of the artifact, frames read
MaxBuilds == 2
MaxReads == 2

\* the .logs section of a second build: two log sites, [u8] and [u8, u8]
SectionB ==
    << Rec(3, 12, 1,  <<"src", "main.c">>, "v={}"),
       Rec(4, 22, 17, <<"src", "main.c">>, "a={} b={}") >>

\* the builds of the artifact, by name; the name also stands for the
\* sha256 digest of the file's bytes
Builds == {"A", "B"}

\* artifacts that do not load: "C" has a record with the type code 0xB,
\* which TYPE_MAP lacks, after a sound record; "T" has a section whose
\* length is not a multiple of the record stride; "N" has no .logs section;
\* "X" is not an ELF file. "absent" stands for no file at the path.
SectionC ==
    << Rec(3, 10, 1,  <<"src", "main.c">>, "v={}"),
       Rec(3, 11, 11, <<"src", "main.c">>, "w={}") >>

BrokenBuilds == {"C", "T", "N", "X"}

SectionOf(build) ==
    CASE build = "A" -> SectionA
      [] build = "B" -> SectionB
      [] build = "C" -> SectionC
      [] build = "T" -> <<SectionA[1]>>
      [] OTHER -> <<>>

\* bytes of the section after its last whole record
TrailingBytes(build) == IF build = "T" THEN 1 ELSE 0

\* last_mtime is None (elf_reader.py:17); mtimes are positive
NoMtime == 0

\* a COBS frame as the firmware sends it, for a payload of fewer than 254
\* bytes none of which is the sentinel
Frame(data) == <<Len(data) + 1>> \o data \o <<EOF>>

\* what serial.read_until hands to thread_loop
RawFrames ==
    { Frame(Hdr(TRUE, 0) \o <<52, 18>>),
      Frame(Hdr(FALSE, 0) \o <<7>>),
      Frame(Hdr(TRUE, 1) \o <<1>>),
      <<255, 255, 255, EOF>> }

\* the watcher and the reader before their threads start; nothing has been
\* put on the viewer's queue
SysIdle ==
    /\ file = [build |-> "A", mtime |-> 1]
    /\ last_mtime = NoMtime
    /\ wpc = "poll"
    /\ wmtime = NoMtime
    /\ wdata = <<>>
    /\ woffset = 0
    /\ wdigest = None
    /\ ctl_sha256 = [m \in {"ELF_OK", "RELOADED_ELF"} |-> None]
    /\ bad_data = FALSE
    /\ loopq = <<>>
    /\ gen = 0
    /\ pendGen = 0
    /\ lastLookup = [done |-> FALSE, table |-> <<>>]
    /\ wstate = "initial"

SysInit == SysIdle /\ queue = <<>>

watcherVars == <<last_mtime, wpc, wmtime, wdata, woffset, wdigest, wstate>>
pendingVars == <<pending_log_id, pending_args, pending_string_chunks, incomplete_log_queue>>

\* the firmware is rebuilt: the artifact gets new bytes and a new mtime
Rebuild ==
    /\ file.mtime < MaxBuilds
    /\ \E b \in Builds : file' = [build |-> b, mtime |-> file.mtime + 1]
    /\ UNCHANGED <<auxVars, bufVars, logVars, decVars, watcherVars, ctl_sha256, bad_data,
                   queue, loopq, gen, pendGen, lastLookup>>

\* ---- bound: WAIT_FOR_ELF messages put while the artifact is absent
MaxWaits == 2

\* mutant of MtimeChanged: every poll loads the artifact
MtimeChanged_Always(mtime) == TRUE

\* Reader.run: `if self.last_mtime != mtime` (elf_reader.py:28)
MtimeChanged(mtime) == last_mtime # mtime

\* what a failing load leaves alone of the state outside the two threads
auxButFail == <<call, rt, stream, items, rx, qhead, log_buffer, args_clear, pkg, buffer_lock, vpc, portVars>>

\* Reader.run, one pass of the loop when the path does not exist
\* (elf_reader.py:22-24)
WWait ==
    /\ wpc = "poll"
    /\ file.build = "absent"
    /\ Cardinality({ i \in 1..Len(queue) :
                       queue[i].kind = "ctl" /\ queue[i].msg = "WAIT_FOR_ELF" }) < MaxWaits
    /\ queue' = Append(queue, [kind |-> "ctl", msg |-> "WAIT_FOR_ELF", gen |-> gen])
    /\ wstate' = "waiting"
    /\ UNCHANGED <<auxVars, bufVars, logVars, decVars, file, last_mtime, wpc, wmtime, wdata,
                   woffset, wdigest, ctl_sha256, bad_data, loopq, gen, pendGen, lastLookup>>

\* Reader.run, one pass of the loop up to the call of load_elf
\* (elf_reader.py:25-29); the artifact exists
WPoll ==
    /\ wpc = "poll"
    /\ file.build # "absent"
    /\ MtimeChanged(file.mtime)
    /\ wmtime' = file.mtime
    /\ wpc' = "load"
    /\ UNCHANGED <<auxVars, bufVars, logVars, decVars, file, last_mtime, wdata, woffset, wdigest,
                   ctl_sha256, bad_data, queue, loopq, gen, pendGen, lastLookup, wstate>>

\* load_elf when it returns before reset is called (elf_reader.py:41-43,
\* 57-59, 67-69), and the return to run (elf_reader.py:30): the path is no
\* longer a file, the file is not an ELF file, or it has no .logs section
WLoadFail ==
    /\ wpc = "load"
    /\ file.build \in {"absent", "N", "X"}
    /\ IF file.build = "absent"
       THEN /\ queue' = Append(queue, [kind |-> "ctl", msg |-> "WAIT_FOR_ELF", gen |-> gen])
            /\ wstate' = "waiting"
            /\ UNCHANGED <<ctl_message, nfailed>>
       ELSE LET reason == IF file.build = "N" THEN "No .logs section in ELF file"
                          ELSE "Failed to open the ELF file"
            IN /\ ctl_message' = reason
               /\ queue' = Append(queue, [kind |-> "ctl", msg |-> "FAILED_TO_READ_ELF",
                                          gen |-> gen, reason |-> reason])
               /\ wstate' = "failed"
               /\ nfailed' = nfailed + 1
    /\ last_mtime' = wmtime
    /\ wpc' = "poll"
    /\ UNCHANGED <<auxButFail, bufVars, logVars, decVars, file, wmtime, wdata, woffset, wdigest,
                   ctl_sha256, bad_data, loopq, gen, pendGen, lastLookup>>

\* mutant of ResetEntries: the sites of the table loaded before are kept
ResetEntries_Keep(old) == old

\* `self.entries = []` at the start of reset (logs.py:230)
ResetEntries(old) == <<>>

\* load_elf up to and into reset (elf_reader.py:37-64, logs.py:230-235): the
\* file is hashed, the section is read, entries is emptied
WResetBegin ==
    /\ wpc = "load"
    /\ file.build \notin {"absent", "N", "X"}
    /\ wdigest' = file.build
    /\ wdata' = SectionOf(file.build)
    /\ woffset' = 0
    /\ entries' = ResetEntries(entries)
    /\ endianness' = "little"
    /\ gen' = gen + 1
    /\ wpc' = "parse"
    /\ UNCHANGED <<auxVars, bufVars, decVars, elf_ready, pendingVars, file, last_mtime, wmtime,
                   ctl_sha256, bad_data, queue, loopq, pendGen, lastLookup, wstate>>

\* the record at the offset is whole and its type codes are known
RecordParses ==
    /\ woffset < Len(wdata)
    /\ ~decode_typecode(wdata[woffset + 1].typecode).raised

\* fewer bytes than one record are left at the offset (logs.py:239)
RecordTruncated == woffset = Len(wdata) /\ TrailingBytes(wdigest) > 0

\* reset, one pass of the while loop (logs.py:237-246)
WParse ==
    /\ wpc = "parse"
    /\ RecordParses
    /\ entries' = Append(entries, from_elf_data(wdata[woffset + 1]))
    /\ woffset' = woffset + 1
    /\ UNCHANGED <<auxVars, bufVars, decVars, elf_ready, endianness, pendingVars, file, last_mtime,
                   wpc, wmtime, wdata, wdigest, ctl_sha256, bad_data, queue, loopq,
                   gen, pendGen, lastLookup, wstate>>

\* reset raises ValueError (logs.py:239-241, or decode_typecode,
\* logs.py:128-129, called through Log.from_elf_data): neither load_elf
\* (elf_reader.py:67) nor run catches it, the watcher thread ends
WParseRaise ==
    /\ pkg = "ulogger"
    /\ wpc = "parse"
    /\ \/ RecordTruncated
       \/ woffset < Len(wdata) /\ ~RecordParses
    /\ entries' = IF RecordTruncated THEN <<>> ELSE entries
    /\ wpc' = "dead"
    /\ wstate' = "failed"
    /\ nfailed' = nfailed + 1
    /\ UNCHANGED <<auxButFail, ctl_message, bufVars, decVars, elf_ready, endianness, pendingVars,
                   file, last_mtime, wmtime, wdata, woffset, wdigest, ctl_sha256, bad_data,
                   queue, loopq, gen, pendGen, lastLookup>>

\* reset, loop exit (logs.py:237, 248)
WResetEnd ==
    /\ wpc = "parse"
    /\ woffset >= Len(wdata)
    /\ ~RecordTruncated
    /\ elf_ready' = TRUE
    /\ wpc' = "emit"
    /\ UNCHANGED <<auxVars, bufVars, decVars, entries, endianness, pendingVars, file, last_mtime,
                   wmtime, wdata, woffset, wdigest, ctl_sha256, bad_data, queue, loopq,
                   gen, pendGen, lastLookup, wstate>>

\* the control message load_elf puts after a successful load
\* (elf_reader.py:71-74)
LoadedMsg == IF last_mtime # NoMtime THEN "RELOADED_ELF" ELSE "ELF_OK"

\* load_elf's else branch and the return to run (elf_reader.py:66-74, 30);
\* ghost tags of the item put: the table generation, the digest computed by
\* this load, the watcher's state before the load, the mtime it recorded at
\* the previous load, the mtime it has just seen and the table reset built
WEmit ==
    /\ pkg = "ulogger"
    /\ wpc = "emit"
    /\ ctl_sha256' = [ctl_sha256 EXCEPT ![LoadedMsg] = wdigest]
    /\ queue' = Append(queue, [kind |-> "ctl", msg |-> LoadedMsg, gen |-> gen,
                               sha |-> wdigest, from |-> wstate,
                               prev |-> last_mtime, seen |-> wmtime, table |-> entries])
    /\ last_mtime' = wmtime
    /\ wpc' = "poll"
    /\ wstate' = "ready"
    /\ UNCHANGED <<auxVars, bufVars, logVars, decVars, file, wmtime, wdata, woffset, wdigest,
                   bad_data, loopq, pendGen, lastLookup>>
    /\ UNCHANGED gen

\* ulog_console: reset raises ValueError and load_elf catches it
\* (ulog_console/elf_reader.py:52, 58-59), then the return to run (line 28)
WParseRaiseC ==
    /\ pkg = "ulog_console"
    /\ wpc = "parse"
    /\ \/ RecordTruncated
       \/ woffset < Len(wdata) /\ ~RecordParses
    /\ entries' = IF RecordTruncated THEN <<>> ELSE entries
    /\ LET reason == IF RecordTruncated THEN "Not enough data for a complete log entry"
                      ELSE "Unknown type code"
       IN /\ ctl_message' = reason
          /\ queue' = Append(queue, [kind |-> "ctl", msg |-> "FAILED_TO_READ_ELF",
                                     gen |-> gen, reason |-> reason])
    /\ last_mtime' = wmtime
    /\ wpc' = "poll"
    /\ wstate' = "failed"
    /\ nfailed' = nfailed + 1
    /\ UNCHANGED <<auxButFail, bufVars, decVars, elf_ready, endianness, pendingVars,
                   file, wmtime, wdata, woffset, wdigest, ctl_sha256, bad_data,
                   loopq, gen, pendGen, lastLookup>>

\* ulog_console: load_elf after reset has returned
\* (ulog_console/elf_reader.py:53, 60-62), then the return to run (line 28):
\* ELF_OK is put, and RELOADED_ELF after it when last_mtime is not None
WEmitC ==
    /\ pkg = "ulog_console"
    /\ wpc = "emit"
    /\ LET tagged(m) == [kind |-> "ctl", msg |-> m, gen |-> gen, sha |-> None,
                         from |-> wstate, prev |-> last_mtime, seen |-> wmtime]
       IN queue' = queue \o <<tagged("ELF_OK")>>
                         \o (IF last_mtime # NoMtime THEN <<tagged("RELOADED_ELF")>> ELSE <<>>)
    /\ last_mtime' = wmtime
    /\ wpc' = "poll"
    /\ wstate' = "ready"
    /\ UNCHANGED <<auxVars, bufVars, logVars, decVars, file, wmtime, wdata, woffset, wdigest,
                   ctl_sha256, bad_data, loopq, gen, pendGen, lastLookup>>

\* the outcome of the try block of thread_loop (serial_reader.py:79-87)
TryDecode(b) ==
    IF Len(b) < 2 THEN Raised("ValueError", PendingState, {})
    ELSE IF cobs_decode(b).raised THEN Raised("ValueError", PendingState, {})
    ELSE decode_frame(cobs_decode(b).data)

\* thread_loop, one pass (serial_reader.py:72-96): b is what read_until
\* returned
SRead ==
    \E b \in RawFrames :
        LET o == TryDecode(b)
        IN /\ nfed < MaxReads
           /\ nfed' = nfed + 1
           /\ StorePending(o)
           /\ pendGen' = IF o.began THEN gen ELSE pendGen
           /\ lastLookup' = IF o.lookup THEN [done |-> TRUE, table |-> entries] ELSE lastLookup
           /\ IF o.kind = "raise" /\ o.result = "ElfNotReady"
              THEN UNCHANGED <<bad_data, loopq>>
              ELSE IF o.kind = "raise"
              THEN /\ bad_data' = TRUE
                   /\ loopq' = IF ~bad_data
                               THEN Append(loopq, [kind |-> "ctl", msg |-> "BAD_DATA", gen |-> gen])
                               ELSE loopq
              ELSE /\ bad_data' = FALSE
                   /\ loopq' = Append(loopq, [kind |-> "log", isNone |-> o.kind = "none",
                                              log |-> o.result, gen |-> gen])
           /\ UNCHANGED <<auxVars, bufVars, entries, elf_ready, endianness, out, firsts, pendSeq, iqBy, lastcall,
                          snd, clean, file, watcherVars, ctl_sha256, queue, gen>>

\* the event loop runs the oldest scheduled queue.put_nowait
\* (serial_reader.py:92, 96)
LoopRun ==
    /\ loopq # <<>>
    /\ queue' = Append(queue, Head(loopq))
    /\ loopq' = Tail(loopq)
    /\ UNCHANGED <<auxVars, bufVars, logVars, decVars, file, watcherVars, ctl_sha256, bad_data,
                   gen, pendGen, lastLookup>>

(***************************************************************************)
(*                 cobs_decode applied to arbitrary frames                 *)
(***************************************************************************)

\* ---- bound: length of the raw frames handed to cobs_decode
MaxRawLen == 3

\* bytes the raw frames are made of: count bytes 0, 1, 2, 3 and 255, a data
\* byte and the sentinel
RawBytes == {0, 1, 2, 3, 7, 255, EOF}

RECURSIVE SeqsOfLen(_, _)
SeqsOfLen(S, n) ==
    IF n = 0 THEN { <<>> }
    ELSE { Append(q, x) : q \in SeqsOfLen(S, n - 1), x \in S }

RawInputs == UNION { SeqsOfLen(RawBytes, n) : n \in 0..MaxRawLen }

(***************************************************************************)
(*        The serial reader subprocess of ulogger: port and threads        *)
(***************************************************************************)

\* ---- bound: commands sent to the subprocess
MaxCmds == 3

\* the port names of the OPEN_PORT commands
Ports == {"COM3", "COM4"}

\* _pending_port_open is None (reader_new.py:172)
NoRetry == 0

\* ---- bounds: the maxsize the BufferedQueue is built with (10000 by
\* default, reader_new.py:70, 160) and the frames the reading thread buffers
MaxQueue == 2
MaxFrPuts == 3

\* _first_timestamp is None (reader_new.py:166)
NoTime == 0 - 1

\* Reader.__init__ (reader_new.py:158-167) and BufferedQueue.__init__
\* (reader_new.py:70-73)
FrameInit ==
    /\ data_buffer = <<>>
    /\ first_timestamp = NoTime
    /\ last_timestamp_us = 0
    /\ rd = [bad_data |-> FALSE, perf |-> 0, nput |-> 0,
             lastput |-> [full |-> FALSE, stored |-> FALSE, marked |-> FALSE]]

frameVars == <<data_buffer, first_timestamp, last_timestamp_us, rd>>

\* FrameData (reader_new.py:58-64); n is a ghost: the ordinal of the
\* _put_frame call that made the frame
FrameData(timestamp_us, frame_type, n) ==
    [timestamp_us |-> timestamp_us, frame_type |-> frame_type, n |-> n]

\* Reader.__init__ (reader_new.py:154-173) and the start of run
\* (reader_new.py:360-364): the main thread is in its loop, the command
\* thread waits for a command, no reading thread yet
PortInit ==
    /\ stop_event = FALSE
    /\ retry_lock = "free"
    /\ pending_port_open = NoRetry
    /\ serial = "none"
    /\ status_queue = <<>>
    /\ tpc = [main |-> "loop", cmd |-> "idle", read |-> "none"]
    /\ FrameInit

\* what the port model leaves alone
notPort == <<bufVars, logVars, decVars, sysVars, call, rt, stream, items, rx, ctl_message,
             nfailed, qhead, log_buffer, args_clear, pkg, buffer_lock, vpc>>

\* the command thread takes a command (reader_new.py:414-422)
CmdTakes ==
    /\ tpc.cmd = "idle" /\ ~stop_event
    /\ Cardinality({i \in 1..Len(status_queue) :
                       status_queue[i].status = "COMMAND_RESPONSE"}) < MaxCmds

\* open_port when serial.Serial succeeds (reader_new.py:286-321);
\* _cancel_retry takes and releases the lock, which is free
CmdOpenOk ==
    /\ CmdTakes
    /\ retry_lock = "free"
    /\ pending_port_open' = NoRetry
    /\ serial' = "open"
    /\ tpc' = [tpc EXCEPT !.read = "running"]
    /\ \E port_name \in Ports :
          status_queue' = Append(status_queue, [status |-> "COMMAND_RESPONSE", success |-> TRUE,
                                                port |-> port_name])
    /\ first_timestamp' = NoTime /\ last_timestamp_us' = 0
    /\ UNCHANGED <<notPort, data_buffer, rd, stop_event, retry_lock>>

\* open_port when serial.Serial raises (reader_new.py:286-304, 323-325),
\* into _start_retry_timer (reader_new.py:199-203): the thread takes
\* _retry_lock, a threading.Lock (reader_new.py:173), and calls
\* _cancel_retry, which waits for the same lock (reader_new.py:219)
CmdOpenFail ==
    /\ CmdTakes
    /\ retry_lock = "free"
    /\ pending_port_open' = NoRetry
    /\ serial' = IF serial = "open" THEN "closed" ELSE serial
    /\ retry_lock' = "cmd"
    /\ tpc' = [tpc EXCEPT !.cmd = "cancel_retry"]
    /\ UNCHANGED <<notPort, frameVars, stop_event, status_queue>>

\* close_port (reader_new.py:335-351)
CmdClose ==
    /\ CmdTakes
    /\ retry_lock = "free"
    /\ pending_port_open' = NoRetry
    /\ serial' = IF serial = "open" THEN "closed" ELSE serial
    /\ status_queue' = Append(status_queue, [status |-> "COMMAND_RESPONSE", success |-> TRUE,
                                             port |-> None])
    /\ IF serial = "open"
          THEN first_timestamp' = NoTime /\ last_timestamp_us' = 0
          ELSE UNCHANGED <<first_timestamp, last_timestamp_us>>
    /\ UNCHANGED <<notPort, data_buffer, rd, stop_event, retry_lock, tpc>>

\* the QUIT command (reader_new.py:433-435)
CmdQuit ==
    /\ CmdTakes
    /\ stop_event' = TRUE
    /\ tpc' = [tpc EXCEPT !.cmd = "done"]
    /\ UNCHANGED <<notPort, frameVars, retry_lock, pending_port_open, serial, status_queue>>

\* command_loop sees the stop flag (reader_new.py:414)
CmdExit ==
    /\ tpc.cmd = "idle" /\ stop_event
    /\ tpc' = [tpc EXCEPT !.cmd = "done"]
    /\ UNCHANGED <<notPort, frameVars, stop_event, retry_lock, pending_port_open, serial, status_queue>>

\* read_loop sees the port closed or the stop flag (reader_new.py:442)
ReadExit ==
    /\ tpc.read = "running" /\ (serial # "open" \/ stop_event)
    /\ tpc' = [tpc EXCEPT !.read = "done"]
    /\ UNCHANGED <<notPort, frameVars, stop_event, retry_lock, pending_port_open, serial, status_queue>>

\* run leaves its loop: the stop flag is set, or KeyboardInterrupt
\* (reader_new.py:367, 389-390); stop() is entered and sets the flag
\* (reader_new.py:393-397)
MainStop ==
    /\ tpc.main = "loop"
    /\ stop_event' = TRUE
    /\ tpc' = [tpc EXCEPT !.main = "cancel_retry"]
    /\ UNCHANGED <<notPort, frameVars, retry_lock, pending_port_open, serial, status_queue>>

\* stop() from _cancel_retry on (reader_new.py:399-410), once the lock is
\* free; the joins time out after 1 s each; run returns
MainReturn ==
    /\ tpc.main = "cancel_retry"
    /\ retry_lock = "free"
    /\ pending_port_open' = NoRetry
    /\ serial' = IF serial = "open" THEN "closed" ELSE serial
    /\ tpc' = [tpc EXCEPT !.main = "returned"]
    /\ UNCHANGED <<notPort, frameVars, stop_event, retry_lock, status_queue>>

\* `if len(self.buffer) < self.maxsize` (reader_new.py:96)
PutKeepsNew(buf) == Len(buf) < MaxQueue

\* _put_frame (reader_new.py:85-98) on a deque(maxlen=maxsize)
put_frame(buf, frame) ==
    LET marker == FrameData(frame.timestamp_us, "dropped", frame.n)
        afterDrop == IF Len(buf) >= MaxQueue
                     THEN Append(IF buf # <<>> THEN Tail(buf) ELSE buf, marker)
                     ELSE buf
    IN IF PutKeepsNew(afterDrop) THEN Append(afterDrop, frame) ELSE afterDrop

RECURSIVE SortedInsert(_, _)
\* the place list.sort gives a frame among frames already sorted: after
\* every frame whose timestamp is not larger (the sort is stable)
SortedInsert(sorted, f) ==
    IF sorted = <<>> THEN <<f>>
    ELSE IF sorted[Len(sorted)].timestamp_us <= f.timestamp_us THEN Append(sorted, f)
         ELSE Append(SortedInsert(SubSeq(sorted, 1, Len(sorted) - 1), f), sorted[Len(sorted)])

RECURSIVE SortFrames(_)
\* frames.sort(key=lambda f: f.timestamp_us) (reader_new.py:106)
SortFrames(frames) ==
    IF frames = <<>> THEN <<>>
    ELSE SortedInsert(SortFrames(SubSeq(frames, 1, Len(frames) - 1)), frames[Len(frames)])

\* _get_monotonic_timestamp_us (reader_new.py:175-197) when perf_counter
\* reads now (in microseconds)
TimestampAt(now) ==
    IF first_timestamp = NoTime THEN 0
    ELSE IF now - first_timestamp <= last_timestamp_us THEN last_timestamp_us + 1
         ELSE now - first_timestamp

\* read_loop, one pass (reader_new.py:442-465): a frame or a read error,
\* its timestamp, and _put_frame
ReadFrame ==
    /\ tpc.read = "running" /\ serial = "open" /\ ~stop_event
    /\ rd.nput < MaxFrPuts
    /\ \E frame_type \in {"valid", "error"}, dt \in {0, 1} :
          LET now == rd.perf + dt
              ts == TimestampAt(now)
              frame == FrameData(ts, frame_type, rd.nput + 1)
              was_full == Len(data_buffer) >= MaxQueue
              buf == put_frame(data_buffer, frame)
          IN /\ first_timestamp' = IF first_timestamp = NoTime THEN now ELSE first_timestamp
             /\ last_timestamp_us' = ts
             /\ data_buffer' = buf
             /\ rd' = [bad_data |-> frame_type = "error", perf |-> now, nput |-> rd.nput + 1,
                       lastput |-> [full |-> was_full,
                                    stored |-> \E i \in 1..Len(buf) : buf[i] = frame,
                                    marked |-> \E i \in 1..Len(buf) :
                                                   buf[i].frame_type = "dropped"
                                                   /\ buf[i].n = rd.nput + 1]]
             /\ status_queue' =
                  IF frame_type = "error" /\ ~rd.bad_data
                  THEN Append(status_queue, [status |-> "PORT_ERROR", data |-> "Read error"])
                  ELSE status_queue
    /\ UNCHANGED <<notPort, stop_event, retry_lock, pending_port_open, serial, tpc>>

\* run, one pass of the main loop with frames buffered (reader_new.py:367-385):
\* get_all_frames (reader_new.py:100-107) and the DATA_READY message
MainDrain ==
    /\ tpc.main = "loop" /\ ~stop_event
    /\ data_buffer # <<>>
    /\ data_buffer' = <<>>
    /\ status_queue' = Append(status_queue, [status |-> "DATA_READY",
                                             frames |-> SortFrames(data_buffer),
                                             held |-> data_buffer])
    /\ UNCHANGED <<notPort, stop_event, retry_lock, pending_port_open, serial, tpc,
                   first_timestamp, last_timestamp_us, rd>>

(***************************************************************************)
(*      The curses viewer's threads and buffer_lock (viewer.py:244-391)    *)
(***************************************************************************)

\* capacity of the viewer's buffer in the threaded model
ViewCap == 2

LockInit ==
    /\ buffer_lock = [owner |-> "free", depth |-> 0]
    /\ vpc = [consumer |-> "idle", refresh |-> "idle", op |-> "none", item |-> None,
              torn |-> FALSE]

notView == <<logVars, decVars, sysVars, call, rt, stream, items, rx, ctl_message,
             nfailed, qhead, log_buffer, args_clear, pkg, portVars>>

\* mutant of CanAcquire: the lock excludes nobody
CanAcquire_Any(t) == TRUE

\* RLock.acquire returns when the lock is free or held by the caller
CanAcquire(t) == buffer_lock.owner \in {"free", t}

Acquired(t) == [owner |-> t, depth |-> buffer_lock.depth + 1]

Released ==
    IF buffer_lock.depth <= 1 THEN [owner |-> "free", depth |-> 0]
    ELSE [buffer_lock EXCEPT !.depth = @ - 1]

\* positions of the consumer between the first and the last statement of
\* append
MidAppend == {"a1", "a2", "a3", "a4"}

\* process_queue enters `with self.buffer_lock` for a log entry
\* (viewer.py:280-282) or for RELOADED_ELF with --clear (viewer.py:266-275)
CEnter ==
    /\ vpc.consumer = "idle" /\ CanAcquire("consumer")
    /\ next_abs_index < MaxAppends
    /\ \E item \in Items, op \in {"append", "replace"} :
          vpc' = [vpc EXCEPT !.consumer = "a0", !.op = op, !.item = item]
    /\ buffer_lock' = Acquired("consumer")
    /\ UNCHANGED <<bufVars, notView>>

\* self.log_buffer = Buffer(maxlen=self.log_buffer.maxlen) (viewer.py:269)
CReplace ==
    /\ vpc.consumer = "a0" /\ vpc.op = "replace"
    /\ buffer' = [i \in 0..(maxlen - 1) |-> None]
    /\ abs_indexes' = [i \in 0..(maxlen - 1) |-> NoIndex]
    /\ start' = 0 /\ end' = 0 /\ size' = 0 /\ next_abs_index' = 0
    /\ appended' = <<>> /\ fallen' = NoIndex
    /\ vpc' = [vpc EXCEPT !.op = "append"]
    /\ UNCHANGED <<maxlen, ret, buffer_lock, notView>>

\* append, statement by statement (buffer.py:15-24)
CAppend1 ==
    /\ vpc.consumer = "a0" /\ vpc.op = "append"
    /\ buffer' = [buffer EXCEPT ![end] = vpc.item]
    /\ vpc' = [vpc EXCEPT !.consumer = "a1"]
    /\ UNCHANGED <<maxlen, abs_indexes, start, end, size, next_abs_index, appended, fallen,
                   ret, buffer_lock, notView>>

CAppend2 ==
    /\ vpc.consumer = "a1"
    /\ abs_indexes' = [abs_indexes EXCEPT ![end] = next_abs_index]
    /\ vpc' = [vpc EXCEPT !.consumer = "a2"]
    /\ UNCHANGED <<maxlen, buffer, start, end, size, next_abs_index, appended, fallen,
                   ret, buffer_lock, notView>>

CAppend3 ==
    /\ vpc.consumer = "a2"
    /\ end' = (end + 1) % maxlen
    /\ vpc' = [vpc EXCEPT !.consumer = "a3"]
    /\ UNCHANGED <<maxlen, buffer, abs_indexes, start, size, next_abs_index, appended,
                   fallen, ret, buffer_lock, notView>>

CAppend4 ==
    /\ vpc.consumer = "a3"
    /\ IF AppendGrows
          THEN size' = size + 1 /\ start' = start
          ELSE start' = NextStart /\ size' = size
    /\ vpc' = [vpc EXCEPT !.consumer = "a4"]
    /\ UNCHANGED <<maxlen, buffer, abs_indexes, end, next_abs_index, appended, fallen,
                   ret, buffer_lock, notView>>

CAppend5 ==
    /\ vpc.consumer = "a4"
    /\ next_abs_index' = next_abs_index + 1
    /\ appended' = Append(appended, vpc.item)
    /\ fallen' = Max(fallen, head_abs_index - 1)
    /\ vpc' = [vpc EXCEPT !.consumer = "a5"]
    /\ UNCHANGED <<maxlen, buffer, abs_indexes, start, end, size, ret, buffer_lock, notView>>

\* the with block of process_queue ends
CExit ==
    /\ vpc.consumer = "a5"
    /\ buffer_lock' = Released
    /\ vpc' = [vpc EXCEPT !.consumer = "idle", !.op = "none", !.item = None]
    /\ UNCHANGED <<bufVars, notView>>

\* a read of the buffer by the refresh thread: its result goes to ret, and
\* torn records whether the consumer stood between two statements of append
VRead(next, r) ==
    /\ ret' = r
    /\ vpc' = [vpc EXCEPT !.refresh = next,
                           !.torn = @ \/ vpc.consumer \in MidAppend]
    /\ UNCHANGED <<maxlen, buffer, abs_indexes, start, end, size, next_abs_index, appended,
                   fallen, buffer_lock, notView>>

\* refresh_loop got a key: `with self.buffer_lock` (viewer.py:353)
REnterKey ==
    /\ vpc.refresh = "idle" /\ CanAcquire("refresh")
    /\ buffer_lock' = Acquired("refresh")
    /\ vpc' = [vpc EXCEPT !.refresh = "keys"]
    /\ UNCHANGED <<bufVars, notView>>

\* head_idx, tail_idx (viewer.py:354-355)
RIndexes ==
    /\ vpc.refresh = "keys"
    /\ VRead("refresh", [op |-> "indexes", res |-> <<head_abs_index, tail_abs_index>>])

\* refresh_loop was notified: `with self.buffer_lock` (viewer.py:388-391)
REnterNotified ==
    /\ vpc.refresh = "idle" /\ CanAcquire("refresh")
    /\ buffer_lock' = Acquired("refresh")
    /\ vpc' = [vpc EXCEPT !.refresh = "refresh"]
    /\ UNCHANGED <<bufVars, notView>>

\* refresh_pad takes the lock its caller already holds (viewer.py:296)
RPadEnter ==
    /\ vpc.refresh = "refresh" /\ CanAcquire("refresh")
    /\ buffer_lock' = Acquired("refresh")
    /\ vpc' = [vpc EXCEPT !.refresh = "pad"]
    /\ UNCHANGED <<bufVars, notView>>

\* for log in reversed(self.log_buffer) (viewer.py:299; buffer.py:70-77)
RPadRead ==
    /\ vpc.refresh = "pad"
    /\ VRead("padout", [op |-> "reversed",
                         res |-> [i \in 1..size |-> buffer[(end - i) % maxlen]]])

RPadExit ==
    /\ vpc.refresh = "padout"
    /\ buffer_lock' = Released
    /\ vpc' = [vpc EXCEPT !.refresh = "bar"]
    /\ UNCHANGED <<bufVars, notView>>

\* draw_scrollbar: total_lines = len(self.log_buffer) (viewer.py:220)
RBar ==
    /\ vpc.refresh = "bar"
    /\ VRead("done", [op |-> "len", res |-> BufLen])

\* the with block of refresh_loop ends
RExit ==
    /\ vpc.refresh = "done"
    /\ buffer_lock' = Released
    /\ vpc' = [vpc EXCEPT !.refresh = "idle"]
    /\ UNCHANGED <<bufVars, notView>>

\* nothing has been called yet
\* no call made, nothing sent by the firmware, no failure reason stored
\* (messages.py:15), nothing consumed
BaseInit ==
    /\ call = [op |-> "none"]
    /\ rt = [sent |-> FALSE, id |-> 0, args |-> <<>>, frames |-> <<>>, got |-> <<>>]
    /\ ctl_message = None
    /\ nfailed = 0
    /\ qhead = 0
    /\ log_buffer = <<>>
    /\ PortInit
    /\ LockInit

\* and the viewer is not asked to clear on reload (the default, cli.py:10);
\* the watcher is that of the ulogger package
RestInit == BaseInit /\ args_clear = FALSE /\ pkg = "ulogger"

\* and nothing on the serial line
AuxInit ==
    /\ RestInit
    /\ stream = <<>>
    /\ items = <<>>
    /\ rx = <<>>

\* ---- bound: nibbles of the short type words
MaxNibbles == 3

\* nibble values the type words are made of: the terminator, a one-byte, a
\* two-byte and a four-byte type, the string and a code with no type
TcNibbles == {0, 1, 4, 7, 10, 11}

\* type words that use all eight nibbles (the top nibble stays below 8)
FullNibbles ==
    { <<1, 1, 1, 1, 1, 1, 1, 1>>, <<10, 4, 1, 7, 10, 1, 4, 7>>,
      <<1, 1, 1, 1, 1, 11, 1, 7>>, <<1, 4, 7, 10, 1, 4, 11, 1>>,
      <<1, 0, 11, 0, 0, 0, 0, 7>> }

RECURSIVE WordOf(_)
\* the 32-bit word with these nibbles, least significant first
WordOf(nibs) ==
    IF nibs = <<>> THEN 0 ELSE nibs[1] + 16 * WordOf(Tail(nibs))

TcInputs == UNION { SeqsOfLen(TcNibbles, n) : n \in 0..MaxNibbles } \cup FullNibbles

\* a caller evaluates decode_typecode(typecode)
DecodeTypecode ==
    /\ \E nibs \in TcInputs :
          call' = [op |-> "decode_typecode", nibs |-> nibs, arg |-> WordOf(nibs),
                   res |-> decode_typecode(WordOf(nibs))]
    /\ UNCHANGED <<bufVars, logVars, decVars, sysVars, rt, stream, items, rx,
                   ctl_message, nfailed, qhead, log_buffer, args_clear, pkg, buffer_lock, vpc, portVars>>

\* a caller evaluates cobs_decode(encoded)
CobsDecode ==
    /\ \E encoded \in RawInputs :
          call' = [op |-> "cobs_decode", arg |-> encoded, res |-> cobs_decode(encoded)]
    /\ UNCHANGED <<bufVars, logVars, decVars, sysVars, rt, stream, items, rx,
                   ctl_message, nfailed, qhead, log_buffer, args_clear, pkg, buffer_lock, vpc, portVars>>

(***************************************************************************)
(*        Firmware-side encoding and the round trip through the host       *)
(***************************************************************************)

\* ---- bound: length of the strings the firmware logs
MaxStrLen == 2

\* a .logs section with one log site per type of the registry, a site
\* without argument and a site with the type vector [u16, str, s8]
SectionT ==
    << Rec(3, 1, 1,   <<"app.c">>, "{}"),
       Rec(3, 2, 2,   <<"app.c">>, "{}"),
       Rec(3, 3, 3,   <<"app.c">>, "{}"),
       Rec(3, 4, 4,   <<"app.c">>, "{}"),
       Rec(3, 5, 5,   <<"app.c">>, "{}"),
       Rec(3, 6, 6,   <<"app.c">>, "{}"),
       Rec(3, 7, 7,   <<"app.c">>, "{}"),
       Rec(3, 8, 8,   <<"app.c">>, "{}"),
       Rec(3, 9, 9,   <<"app.c">>, "{}"),
       Rec(3, 10, 10, <<"app.c">>, "{}"),
       Rec(3, 11, 0,  <<"app.c">>, "no argument"),
       Rec(3, 12, 676, <<"app.c">>, "{} {} {}") >>

\* bytes of the C strings the firmware logs: 'h' and 0xFF
StrBytes == {104, 255}

\* values the firmware logs, by type; several hold the byte 0xA6
ArgValues(t) ==
    CASE t = "TypeU8"      -> { [int |-> 0], [int |-> 166], [int |-> 255] }
      [] t = "TypeS8"      -> { [int |-> 0 - 128], [int |-> 0 - 90], [int |-> 5] }
      [] t = "TypeB8"      -> { [bool |-> TRUE], [bool |-> FALSE] }
      [] t = "TypeU16"     -> { [int |-> 0], [int |-> 4660], [int |-> 42662] }
      [] t = "TypeS16"     -> { [int |-> 0 - 32768], [int |-> 0 - 90], [int |-> 7] }
      [] t = "TypePtr16"   -> { [int |-> 166], [int |-> 65535] }
      [] t = "TypeU32"     -> { [int |-> 305419896], [int |-> 166] }
      [] t = "TypeS32"     -> { [int |-> 0 - 1], [int |-> 0 - 1503238554], [int |-> 166] }
      [] t = "TypeFloat32" -> { [float |-> [sign |-> 0, exp |-> 127, frac |-> 0]],
                                [float |-> [sign |-> 1, exp |-> 166, frac |-> 166]] }
      [] t = "TypeStr"     -> { [str |-> q] :
                                q \in UNION { SeqsOfLen(StrBytes, n) : n \in 0..MaxStrLen } }

\* the argument vectors of a type vector
RECURSIVE ArgVectors(_)
ArgVectors(types) ==
    IF types = <<>> THEN { <<>> }
    ELSE { <<v>> \o rest : v \in ArgValues(Head(types)), rest \in ArgVectors(Tail(types)) }

\* an integer as n bytes in two's complement
ToBytes(v, n, endian) ==
    LET le == [i \in 1..n |-> (v \div (256 ^ (i - 1))) % 256]
    IN IF endian = "little" THEN le ELSE Reverse(le)

\* the payload bytes of one argument
ArgBytes(t, val, endian) ==
    CASE t \in {"TypeU8", "TypeS8", "TypeU16", "TypeS16", "TypePtr16", "TypeU32", "TypeS32"} ->
             ToBytes(val.int, TypeLen(t), endian)
      [] t = "TypeB8" -> << IF val.bool THEN 1 ELSE 0 >>
      [] t = "TypeFloat32" ->
             LET f == val.float
                 be == << f.sign * 128 + f.exp \div 2,
                          (f.exp % 2) * 128 + f.frac \div 65536,
                          (f.frac \div 256) % 256,
                          f.frac % 256 >>
             IN IF endian = "little" THEN Reverse(be) ELSE be
      [] t = "TypeStr" -> val.str \o <<0>>

\* the 16-bit header in the byte order of the artifact
WireHdr(first, id, endian) == ToBytes(IF first THEN id ELSE id + CONT_FLAG, 2, endian)

\* COBS with sentinel EOF, for payloads whose runs between sentinels are
\* shorter than 165 bytes: each group is its count byte, one more than the
\* length of the run, and the run
RECURSIVE CobsGroups(_, _)
CobsGroups(data, run) ==
    IF data = <<>> THEN <<Len(run) + 1>> \o run
    ELSE IF Head(data) = EOF
         THEN (<<Len(run) + 1>> \o run) \o CobsGroups(Tail(data), <<>>)
         ELSE CobsGroups(Tail(data), Append(run, Head(data)))

cobs_encode(data) == CobsGroups(data, <<>>) \o <<EOF>>

\* the raw frames of one log statement: one argument per frame, the first
\* with the continuation flag clear, the others with it set
EncodeLog(id, args, types, endian) ==
    IF args = <<>> THEN << cobs_encode(WireHdr(TRUE, id, endian)) >>
    ELSE [i \in 1..Len(args) |->
             cobs_encode(WireHdr(i = 1, id, endian) \o ArgBytes(types[i], args[i], endian))]

\* the artifact of the firmware is loaded, in either byte order
RTLoad ==
    /\ ~elf_ready
    /\ \E le \in BOOLEAN : reset(SectionT, le)
    /\ UNCHANGED <<bufVars, decVars, sysVars, auxVars>>

\* the firmware executes a log statement and puts its frames on the wire
RTSend ==
    /\ elf_ready
    /\ rt.frames = <<>>
    /\ \E id \in 0..(Len(entries) - 1) :
          \E args \in ArgVectors(entries[id + 1].types) :
              rt' = [sent |-> TRUE, id |-> id, args |-> args, got |-> <<>>,
                     frames |-> EncodeLog(id, args, entries[id + 1].types, endianness)]
    /\ UNCHANGED <<bufVars, logVars, decVars, sysVars, call, stream, items, rx,
                   ctl_message, nfailed, qhead, log_buffer, args_clear, pkg, buffer_lock, vpc, portVars>>

\* the host reads the next frame and runs cobs_decode and decode_frame on it
\* (serial_reader.py:76-87)
RTDecode ==
    /\ rt.frames # <<>>
    /\ LET o == TryDecode(Head(rt.frames))
       IN /\ StorePending(o)
          /\ rt' = [rt EXCEPT !.frames = Tail(@),
                              !.got = IF o.kind = "entry" THEN Append(@, o.result) ELSE @]
    /\ UNCHANGED <<bufVars, entries, elf_ready, endianness, decVars, sysVars, call,
                   stream, items, rx, ctl_message, nfailed, qhead, log_buffer, args_clear, pkg, buffer_lock, vpc, portVars>>

(***************************************************************************)
(*                 The serial reader on a stream of bytes                  *)
(***************************************************************************)

\* ---- bound: frames and runs of garbage on the serial line
MaxItems == 3

\* well-formed frames of the first build: the one-frame entries of log
\* sites 1 ([u8]) and 3 (no argument)
ValidFrames ==
    { cobs_encode(Hdr(TRUE, 1) \o <<1>>), cobs_encode(Hdr(TRUE, 3)),
      cobs_encode(Hdr(TRUE, 0) \o <<52, 18>>) }

\* bytes inserted into the stream, none of them the sentinel
Garbage == <<255, 255, 255>>

\* frames that fail: a group count of 0, and a log id the table lacks
FailingFrames == { <<0, EOF>>, cobs_encode(Hdr(TRUE, 4) \o <<1>>) }

StreamItems == ValidFrames \cup {Garbage} \cup FailingFrames

\* serial.read_until(EOF) (serial_reader.py:76) when the bytes of the
\* stream arrive back to back: everything up to and including the first
\* sentinel; what is left, possibly nothing, when the read times out
RECURSIVE ReadUntil(_)
ReadUntil(s) ==
    IF s = <<>> THEN <<>>
    ELSE IF Head(s) = EOF THEN <<EOF>>
    ELSE <<Head(s)>> \o ReadUntil(Tail(s))

\* the serial line carries a sequence of frames and garbage
SerInit ==
    /\ RestInit
    /\ \E n \in 1..MaxItems : items \in SeqsOfLen(StreamItems, n)
    /\ stream = Join(items)
    /\ rx = <<>>

\* mutant of EmitsBadData: every failing frame is reported
EmitsBadData_Always == TRUE

\* thread_loop: `if not self.bad_data` (serial_reader.py:91)
EmitsBadData == ~bad_data

\* mutant of IsNotReady: ElfNotReady is handled as any other exception
IsNotReady_Never(o) == FALSE

\* `except ElfNotReady` (serial_reader.py:88-89)
IsNotReady(o) == o.kind = "raise" /\ o.result = "ElfNotReady"

\* thread_loop, one pass (serial_reader.py:72-96) on the bytes read_until
\* returns
SerialRead ==
    /\ Len(rx) < MaxItems + 1
    /\ LET b == ReadUntil(stream)
           o == TryDecode(b)
       IN /\ stream' = SubSeq(stream, Len(b) + 1, Len(stream))
          /\ StorePending(o)
          /\ IF IsNotReady(o)
             THEN /\ rx' = Append(rx, "notready")
                  /\ UNCHANGED <<bad_data, loopq>>
             ELSE IF o.kind = "raise"
             THEN /\ rx' = Append(rx, "fail")
                  /\ loopq' = IF EmitsBadData
                              THEN Append(loopq, [kind |-> "ctl", msg |-> "BAD_DATA", gen |-> gen])
                              ELSE loopq
                  /\ bad_data' = TRUE
             ELSE /\ rx' = Append(rx, "ok")
                  /\ bad_data' = FALSE
                  /\ loopq' = Append(loopq, [kind |-> "log", isNone |-> o.kind = "none",
                                             log |-> o.result, gen |-> gen])
    /\ UNCHANGED <<bufVars, entries, elf_ready, endianness, decVars, file, watcherVars,
                   ctl_sha256, queue, gen, pendGen, lastLookup, call, rt, items,
                   ctl_message, nfailed, qhead, log_buffer, args_clear, pkg, buffer_lock, vpc, portVars>>

(***************************************************************************)
(*          The artifact on disk and the consumer of the queue             *)
(***************************************************************************)

\* ---- bound: times the artifact is written
MaxChanges == 2

\* the artifact is written: new contents, sound or not, and a new mtime
Touch ==
    /\ file.mtime <= MaxChanges
    /\ \E b \in Builds \cup BrokenBuilds : file' = [build |-> b, mtime |-> file.mtime + 1]
    /\ UNCHANGED <<auxVars, bufVars, logVars, decVars, watcherVars, ctl_sha256, bad_data,
                   queue, loopq, gen, pendGen, lastLookup>>

\* the artifact is removed
Remove ==
    /\ file.build # "absent"
    /\ file' = [file EXCEPT !.build = "absent"]
    /\ UNCHANGED <<auxVars, bufVars, logVars, decVars, watcherVars, ctl_sha256, bad_data,
                   queue, loopq, gen, pendGen, lastLookup>>

\* the artifact is put back at its path with the mtime it had (moved back,
\* or copied with its times preserved)
Restore ==
    /\ file.build = "absent"
    /\ \E b \in Builds : file' = [file EXCEPT !.build = b]
    /\ UNCHANGED <<auxVars, bufVars, logVars, decVars, watcherVars, ctl_sha256, bad_data,
                   queue, loopq, gen, pendGen, lastLookup>>

\* `self.queue.qsize() > 5000` (viewer.py:247)
HIGH_WATER == 5000

\* the note appended for every item drained (viewer.py:251), and the
\* number its text states
OVERRUN_NOTE == "Buffer overrun - flushed 5000 items"
OVERRUN_STATED == 5000

\* what process_queue appends to log_buffer for one item taken
\* (viewer.py:256-282); log_buffer is held as the sequence of the items
\* appended since it was created
Handled(item) ==
    IF item.kind = "ctl" /\ item.msg \in {"ELF_OK", "RELOADED_ELF"}
    THEN LET kept == IF item.msg = "RELOADED_ELF" /\ args_clear THEN <<>> ELSE log_buffer
         IN Append(kept, [kind |-> "elf",
                          status |-> IF item.msg = "RELOADED_ELF" THEN "reloaded" ELSE "loaded",
                          sha256 |-> ctl_sha256[item.msg],
                          sent |-> item.sha])
    ELSE IF item.kind = "log" /\ ~item.isNone
    THEN Append(log_buffer, [kind |-> "entry", log |-> item.log])
    ELSE log_buffer

\* ---- bound: items the consumer takes one at a time
MaxTakes == 6

\* Viewer.process_queue, one pass of the loop in which the queue is not
\* empty (viewer.py:244-286): above the high-water mark everything is
\* drained, and the get that follows finds the queue empty
VProcess ==
    /\ qhead < Len(queue)
    /\ qhead < MaxTakes \/ Len(queue) - qhead > HIGH_WATER
    /\ IF Len(queue) - qhead > HIGH_WATER
       THEN /\ qhead' = Len(queue)
            /\ log_buffer' = log_buffer \o [i \in 1..(Len(queue) - qhead) |->
                                              [kind |-> "note", text |-> OVERRUN_NOTE,
                                               stated |-> OVERRUN_STATED,
                                               flushed |-> Len(queue) - qhead]]
       ELSE /\ qhead' = qhead + 1
            /\ log_buffer' = Handled(queue[qhead + 1])
    /\ UNCHANGED <<bufVars, logVars, decVars, sysVars, call, rt, stream, items, rx,
                   ctl_message, nfailed, args_clear, pkg, buffer_lock, vpc, portVars>>

\* LogViewer.poll_queue and handle_message of the textual viewer, one item
\* taken (viewer_textual.py:1158-1188): RELOADED_ELF calls clear_logs
\* (viewer_textual.py:1183, 1557-1562), a log entry is appended
\* (viewer_textual.py:1239), no other item touches log_buffer
VHandle ==
    /\ qhead < Len(queue)
    /\ qhead < MaxTakes
    /\ qhead' = qhead + 1
    /\ LET msg == queue[qhead + 1]
       IN log_buffer' =
            IF msg.kind = "ctl" /\ msg.msg = "RELOADED_ELF" THEN <<>>
            ELSE IF msg.kind = "log" /\ ~msg.isNone
            THEN Append(log_buffer, [kind |-> "entry", log |-> msg.log])
            ELSE log_buffer
    /\ UNCHANGED <<bufVars, logVars, decVars, sysVars, call, rt, stream, items, rx,
                   ctl_message, nfailed, args_clear, pkg, buffer_lock, vpc, portVars>>

\* ---- bound: items put while the consumer works through a backlog
MaxPuts == 2

\* the serial reader's put on the viewer's queue, of BAD_DATA or of a
\* decoded entry (serial_reader.py:92, 96)
VPut ==
    /\ Len(queue) < HIGH_WATER + 1 + MaxPuts
    /\ \E item \in { [kind |-> "ctl", msg |-> "BAD_DATA", gen |-> gen],
                      [kind |-> "log", isNone |-> FALSE, log |-> <<0, <<>>>>, gen |-> gen] } :
          queue' = Append(queue, item)
    /\ UNCHANGED <<auxVars, bufVars, logVars, decVars, file, watcherVars, ctl_sha256, bad_data,
                   loopq, gen, pendGen, lastLookup>>

\* the items put while the consumer thread was not scheduled: the queue is
\* unbounded (__main__.py:11), so any number of them
Backlog(n) == [i \in 1..n |-> [kind |-> "ctl", msg |-> "BAD_DATA", gen |-> 0]]

BacklogSizes == {HIGH_WATER - 1, HIGH_WATER, HIGH_WATER + 1}

\* the viewer is started with or without --clear
WatchInit == BaseInit /\ args_clear \in BOOLEAN /\ pkg = "ulogger" /\ stream = <<>> /\ items = <<>> /\ rx = <<>>

(***************************************************************************)
(*                             Specifications                              *)
(***************************************************************************)

\* the ring buffer on its own
InitBuf == (\E cap \in 1..MaxCap : BufInit(cap)) /\ LogsInit /\ DecInit /\ SysInit /\ AuxInit

NextBuf == Append_ \/ Get \/ Latest \/ Slice

SpecBuf == InitBuf /\ [][NextBuf]_vars

\* the decoder on its own
InitDec == BufInit(1) /\ LogsInit /\ DecInit /\ SysInit /\ AuxInit

NextDec == Load \/ Feed

SpecDec == InitDec /\ [][NextDec]_vars

\* cobs_decode on its own
InitCobs == BufInit(1) /\ LogsInit /\ DecInit /\ SysInit /\ AuxInit

NextCobs == CobsDecode

SpecCobs == InitCobs /\ [][NextCobs]_vars

\* the consumer thread and the refresh thread of the curses viewer
InitLock == BufInit(ViewCap) /\ LogsInit /\ DecInit /\ SysInit /\ AuxInit

NextLock ==
    \/ CEnter \/ CReplace \/ CAppend1 \/ CAppend2 \/ CAppend3 \/ CAppend4 \/ CAppend5
    \/ CExit \/ REnterKey \/ RIndexes \/ REnterNotified \/ RPadEnter \/ RPadRead
    \/ RPadExit \/ RBar \/ RExit

SpecLock == InitLock /\ [][NextLock]_vars

\* decode_typecode on a type word
InitTc == BufInit(1) /\ LogsInit /\ DecInit /\ SysInit /\ AuxInit

NextTc == DecodeTypecode

SpecTc == InitTc /\ [][NextTc]_vars

\* firmware, wire and host decoder
InitRT == BufInit(1) /\ LogsInit /\ DecInit /\ SysInit /\ AuxInit

NextRT == RTLoad \/ RTSend \/ RTDecode

SpecRT == InitRT /\ [][NextRT]_vars

\* the serial reader thread and the event loop on a stream of bytes
InitSer == BufInit(1) /\ LogsInit /\ DecInit /\ SysInit /\ SerInit

NextSer == Load \/ SerialRead \/ LoopRun

SpecSer == InitSer /\ [][NextSer]_vars

\* the artifact, the watcher thread and the viewer's consumer thread
InitWatch == BufInit(1) /\ LogsInit /\ DecInit /\ SysInit /\ WatchInit

NextWatch ==
    \/ Touch \/ Remove
    \/ WWait \/ WPoll \/ WLoadFail \/ WResetBegin \/ WParse \/ WParseRaise \/ WResetEnd \/ WEmit
    \/ VProcess

SpecWatch == InitWatch /\ [][NextWatch]_vars

\* the watcher's poll loop scheduled fairly, on an artifact that is written,
\* removed and put back
WatcherStep ==
    \/ WWait \/ WPoll \/ WLoadFail \/ WResetBegin \/ WParse \/ WParseRaise \/ WResetEnd
    \/ WEmit

NextReappear == NextWatch \/ Restore

SpecReappear == InitWatch /\ [][NextReappear]_vars /\ WF_vars(WatcherStep)

\* the watcher thread, the serial reader thread, the event loop and the
\* textual viewer's consumer
InitUi == BufInit(1) /\ LogsInit /\ DecInit /\ SysInit /\ WatchInit

NextUi ==
    \/ Rebuild \/ WPoll \/ WResetBegin \/ WParse \/ WResetEnd \/ WEmit
    \/ SRead \/ LoopRun \/ VHandle

SpecUi == InitUi /\ [][NextUi]_vars

\* the serial reader subprocess: main thread, command thread, reading thread
InitPort == BufInit(1) /\ LogsInit /\ DecInit /\ SysInit /\ AuxInit

NextPort ==
    \/ CmdOpenOk \/ CmdOpenFail \/ CmdClose \/ CmdQuit \/ CmdExit
    \/ ReadExit \/ MainStop \/ MainReturn \/ ReadFrame \/ MainDrain

SpecPort == InitPort /\ [][NextPort]_vars

\* every thread that can take a step takes one
SpecPortLive == SpecPort /\ WF_vars(NextPort)

\* the viewer's consumer thread behind a backlog
InitView ==
    /\ BufInit(1) /\ LogsInit /\ DecInit /\ SysIdle /\ WatchInit
    /\ \E n \in BacklogSizes : queue = Backlog(n)

NextView == VPut \/ VProcess

SpecView == InitView /\ [][NextView]_vars

\* either package's watcher runs
PollInit ==
    /\ BaseInit /\ args_clear = FALSE /\ pkg \in {"ulogger", "ulog_console"}
    /\ stream = <<>> /\ items = <<>> /\ rx = <<>>

\* the artifact and the watcher thread of either package
InitPoll == BufInit(1) /\ LogsInit /\ DecInit /\ SysInit /\ PollInit

NextPoll ==
    \/ Touch \/ Remove
    \/ WWait \/ WPoll \/ WLoadFail \/ WResetBegin \/ WParse \/ WResetEnd
    \/ WParseRaise \/ WEmit \/ WParseRaiseC \/ WEmitC

SpecPoll == InitPoll /\ [][NextPoll]_vars

\* the watcher thread, the serial reader thread and the event loop together
InitSys == BufInit(1) /\ LogsInit /\ DecInit /\ SysInit /\ AuxInit

NextSys == Rebuild \/ WPoll \/ WResetBegin \/ WParse \/ WResetEnd \/ WEmit \/ SRead \/ LoopRun

SpecSys == InitSys /\ [][NextSys]_vars

(***************************************************************************)
(*                        Ring buffer: properties                          *)
(***************************************************************************)

\* the item of the append with absolute index k
ItemOfAppend(k) == appended[k + 1]

\* the items of the appends with absolute indices lo..hi, in index order
ItemsOfAppends(lo, hi) == SubSeq(appended, lo + 1, hi + 1)

\* C6: after K >= 1 appends to a buffer of capacity C >= 1, len = min(K, C),
\* tail_abs_index = K-1 and head_abs_index = max(0, K-C).
C6_LenHeadTail ==
    LET K == Len(appended)
    IN K >= 1 =>
         /\ BufLen = Min(K, maxlen)
         /\ tail_abs_index = K - 1
         /\ head_abs_index = Max(0, K - maxlen)

\* C6 witness: capacity 4 after 10 appends retains absolute indices 6..9
C6_Witness ==
    /\ maxlen = 4
    /\ Len(appended) = 10
    /\ head_abs_index = 6
    /\ tail_abs_index = 9
    /\ BufLen = 4

\* what buffer[a] must give: the item of the a-th append when a is in
\* [head, tail], IndexError otherwise
ExpectedGet(a) ==
    IF size > 0 /\ head_abs_index <= a /\ a <= tail_abs_index
        THEN [raised |-> FALSE, val |-> ItemOfAppend(a)]
        ELSE [raised |-> TRUE, val |-> "IndexError"]

\* C7: buffer[a] returns the item of the a-th append whenever
\* head <= a <= tail and raises IndexError otherwise; an index that has once
\* fallen below head is unreadable in every later state.
C7_GetItem ==
    ret.op = "get" =>
        /\ ret.res = ExpectedGet(ret.arg)
        /\ (0 <= ret.arg /\ ret.arg <= fallen) => ret.res.raised

\* C7 witness: buffer[a] was evaluated for an index that was overwritten
\* (raised) in a full buffer
C7_Witness ==
    /\ ret.op = "get"
    /\ ret.arg >= 0
    /\ ret.arg < head_abs_index - 1
    /\ ret.arg <= fallen
    /\ ret.res.raised
    /\ size = maxlen
    /\ GetItem(tail_abs_index) = [raised |-> FALSE, val |-> ItemOfAppend(tail_abs_index)]

\* what latest_slice(n) must give for n >= 0
ExpectedLatest(n) ==
    LET K == Len(appended)
    IN ItemsOfAppends(K - Min(n, BufLen), K - 1)

\* C8: for every n >= 0, latest_slice(n) is the min(n, len) most recently
\* appended items, oldest first.
C8_LatestSlice ==
    (ret.op = "latest" /\ ret.arg >= 0) => ret.res = ExpectedLatest(ret.arg)

\* C8 witness: latest_slice(2) evaluated on a wrapped buffer holding two
\* different items
C8_Witness ==
    /\ ret.op = "latest"
    /\ ret.arg = 2
    /\ Len(ret.res) = 2
    /\ ret.res[1] # ret.res[2]
    /\ size = maxlen
    /\ start > 0

\* what slice_by_abs_index(a, n) must give
ExpectedSlice(a, n) ==
    IF size = 0 \/ a > tail_abs_index THEN <<>>
    ELSE LET lo == Max(a, head_abs_index)
             hi == Min(lo + n - 1, tail_abs_index)
         IN ItemsOfAppends(lo, hi)

\* C9: slice_by_abs_index(start, n) returns the items with absolute indices
\* max(start, head) .. min(max(start, head)+n-1, tail) in increasing order,
\* and the empty list when the buffer is empty or start > tail.
C9_SliceByAbsIndex ==
    ret.op = "slice" => ret.res = ExpectedSlice(ret.arg[1], ret.arg[2])

\* C9 witness: a slice asked from below head of a wrapped buffer, clipped to
\* head, returning two items
C9_Witness ==
    /\ ret.op = "slice"
    /\ head_abs_index > 0
    /\ ret.arg[1] < head_abs_index
    /\ ret.arg[2] = 2
    /\ Len(ret.res) = 2
    /\ ret.res = <<ItemOfAppend(head_abs_index), ItemOfAppend(head_abs_index + 1)>>

\* C10: in a non-empty buffer the stored absolute indices are contiguous:
\* tail - head + 1 = len, and the slot at physical position
\* (start+i) mod maxlen carries absolute index head+i for 0 <= i < len.
C10_Contiguous ==
    size > 0 =>
        /\ tail_abs_index - head_abs_index + 1 = BufLen
        /\ \A i \in 0..(size - 1) :
              abs_indexes[(start + i) % maxlen] = head_abs_index + i

\* C10 witness: a buffer of capacity >= 3 that has wrapped
C10_Witness ==
    /\ maxlen >= 3
    /\ size = maxlen
    /\ start > 0
    /\ end = start
    /\ abs_indexes[start] = head_abs_index
    /\ head_abs_index > 0

(***************************************************************************)
(*                         Decoder: properties                             *)
(***************************************************************************)

\* an entry of the output stream is an INCOMPLETE note / an ordinary or
\* reserved log entry
IsIncomplete(e) == e.by # 0
IsLog(e) == e.by = 0

\* C1: when a first-frame arrives while a previous entry has collected
\* k < expected arguments, one INCOMPLETE entry is produced for it, it appears
\* in the output stream before the log entry the displacing first-frame
\* begins, and it records the k arguments collected.
C1_IncompleteBeforeDisplacer ==
    /\ \A j \in 1..Len(out) :
          (IsLog(out[j]) /\ out[j].seq # 0) =>
              /\ \A q \in 1..Len(iqBy) : iqBy[q] # out[j].seq
              /\ \A i \in 1..Len(out) : out[i].by = out[j].seq => i < j
    /\ \A i \in 1..Len(out) :
          IsIncomplete(out[i]) =>
              /\ out[i].logmeta.filename = "INCOMPLETE"
              /\ out[i].logmeta.fmt.got = Len(out[i].data)
              /\ out[i].logmeta.fmt.got < out[i].logmeta.fmt.expected

\* the site a first-frame with log id `id` must be reported against
ExpectedMeta(id) ==
    IF id = START_ID THEN "START"
    ELSE IF id = OVERRUN_ID THEN "OVERRUN"
    ELSE from_elf_data(SectionA[id + 1])

MetaMatches(e, id) ==
    IF id \in {START_ID, OVERRUN_ID}
    THEN e.logmeta.filename = ExpectedMeta(id)
    ELSE e.logmeta = ExpectedMeta(id)

\* C5: with a ready table and a frame sequence without protocol violation,
\* the decoder emits exactly one log entry per first-frame, in the order of
\* the first-frames (the entry of the last first-frame is still to come while
\* its continuation frames are outstanding).
C5_OneEntryPerFirstFrameInOrder ==
    clean =>
        LET n == Len(firsts) - (IF snd = NoSnd THEN 0 ELSE 1)
        IN /\ incomplete_log_queue = <<>>
           /\ Len(out) = n
           /\ \A i \in 1..Len(out) :
                 /\ IsLog(out[i])
                 /\ out[i].seq = i
                 /\ MetaMatches(out[i], firsts[i])

\* C5 witness: a two-argument entry and a two-frame string entry decoded
\* from four conforming frames
C5_Witness ==
    /\ clean
    /\ nfed = 4
    /\ firsts = <<0, 2>>
    /\ Len(out) = 2
    /\ out[1].data = << [int |-> 4660], [int |-> 7] >>
    /\ out[2].data = << [str |-> <<104, 111>>] >>

(***************************************************************************)
(*                    Threads and reload: properties                       *)
(***************************************************************************)

\* the complete symbol table of a build
TableOf(build) == [i \in 1..Len(SectionOf(build)) |-> from_elf_data(SectionOf(build)[i])]

\* C2: whenever a new symbol table has been loaded (reset has returned), the
\* in-flight reassembly state is cleared: a pending entry, with its
\* arguments and string chunks, is never one begun against an older table.
C2_ReloadClearsPending ==
    (wpc # "parse" /\ pending_log_id # NoLog) => pendGen = gen

\* an item of the dispatch queue is a decoded log entry
IsEntryItem(item) == item.kind = "log" /\ ~item.isNone

\* an item of the dispatch queue announces the table of generation g
Announces(item, g) ==
    item.kind = "ctl" /\ item.msg \in {"ELF_OK", "RELOADED_ELF"} /\ item.gen = g

\* C3: in every interleaving of the watcher thread and the serial thread, the
\* ELF_OK / RELOADED_ELF event of a table is put on the dispatch queue before
\* any log entry decoded against that table.
C3_EventBeforeEntries ==
    \A j \in 1..Len(queue) :
        IsEntryItem(queue[j]) => \E i \in 1..(j - 1) : Announces(queue[i], queue[j].gen)

\* C4: a decode_packet call running concurrently with a reload looks log ids
\* up in the complete old table or the complete new table, never in an empty
\* or partially filled entries list.
C4_LookupSeesCompleteTable ==
    lastLookup.done => lastLookup.table \in {TableOf(b) : b \in Builds}

(***************************************************************************)
(*                         COBS framing: properties                        *)
(***************************************************************************)

\* the groups of a raw frame, walked from its first byte: some group count is
\* 0, or reaches past the last byte before the trailing sentinel (index and
\* last are 0-based positions, last that of the trailing sentinel)
RECURSIVE BadGroup(_, _, _)
BadGroup(encoded, index, last) ==
    IF index >= last THEN FALSE
    ELSE LET c == encoded[index + 1]
         IN \/ c = 0
            \/ index + c > last
            \/ BadGroup(encoded, index + c, last)

\* the positions of the raw frame whose byte a successful decode copies
\* verbatim: those of every group but its count byte
RECURSIVE CopiedPositions(_, _, _)
CopiedPositions(encoded, index, last) ==
    IF index >= last THEN {}
    ELSE LET c == encoded[index + 1]
         IN IF c = 0 THEN {}
            ELSE ((index + 1)..(index + c - 1)) \cup CopiedPositions(encoded, index + c, last)

\* C11: cobs_decode raises for every frame whose last byte is not the
\* sentinel, for every frame with a group count of 0 and for every frame in
\* which a group count reaches past the last byte before the trailing
\* sentinel; when it returns, the trailing sentinel was not copied into the
\* payload.
C11_CobsRejectsMalformed ==
    call.op = "cobs_decode" =>
        LET e == call.arg
            last == Len(e) - 1
        IN /\ (e = <<>> \/ e[Len(e)] # EOF) => call.res.raised
           /\ (e # <<>> /\ BadGroup(e, 0, last)) => call.res.raised
           /\ (e # <<>> /\ ~call.res.raised) => last \notin CopiedPositions(e, 0, last)

(***************************************************************************)
(*                          Round trip: properties                         *)
(***************************************************************************)

\* C12: encoding a log id and an argument vector with the firmware-side
\* convention and feeding the frames in order through cobs_decode and
\* decode_packet yields one entry, for that log site, whose args equal the
\* original vector; nothing is returned before the last frame.
C12_RoundTrip ==
    rt.sent =>
        IF rt.frames # <<>> THEN rt.got = <<>>
        ELSE /\ Len(rt.got) = 1
             /\ rt.got[1].logmeta = entries[rt.id + 1]
             /\ rt.got[1].data = rt.args

\* the same for the argument vectors whose strings are ASCII
AsciiArgs == \A i \in 1..Len(rt.args) :
                 "str" \in DOMAIN rt.args[i] => \A j \in 1..Len(rt.args[i].str) : rt.args[i].str[j] < 128

C12_RoundTripAscii == AsciiArgs => C12_RoundTrip

(***************************************************************************)
(*                       Serial reader: properties                         *)
(***************************************************************************)

\* what the serial reader has emitted, in emission order: the items put on
\* the dispatch queue followed by the puts scheduled on the event loop
Emitted == queue \o loopq

IsBadData(item) == item.kind = "ctl" /\ item.msg = "BAD_DATA"

\* C13: for the byte stream <valid frame A> FF FF FF <valid frame B> the
\* reader yields frame A, then one malformed frame reported as BadData,
\* then frame B decoded normally.
C13_Resynchronization ==
    ( /\ Len(items) = 3
      /\ items[1] \in ValidFrames /\ items[2] = Garbage /\ items[3] \in ValidFrames
      /\ stream = <<>>
      /\ \A i \in 1..Len(rx) : rx[i] # "notready" )
    => /\ Len(rx) >= 3
       /\ rx[1] = "ok" /\ rx[2] = "fail" /\ rx[3] = "ok"
       /\ Len(Emitted) >= 3
       /\ IsEntryItem(Emitted[1]) /\ IsBadData(Emitted[2]) /\ IsEntryItem(Emitted[3])

\* the passes of the reader's loop that decoded a frame or failed on one
\* (a frame skipped because the table is not ready is neither)
RECURSIVE Settled(_)
Settled(q) ==
    IF q = <<>> THEN <<>>
    ELSE IF Head(q) = "notready" THEN Settled(Tail(q))
    ELSE <<Head(q)>> \o Settled(Tail(q))

\* number of runs of consecutive failing frames
FailRuns(q) ==
    LET t == Settled(q)
    IN Cardinality({ i \in 1..Len(t) : t[i] = "fail" /\ (i = 1 \/ t[i - 1] = "ok") })

\* how many frame results and how many BadData events were emitted, and how
\* many passes of the loop ended without exception
FramesEmitted == Cardinality({ i \in 1..Len(Emitted) : Emitted[i].kind = "log" })
BadDataEmitted == Cardinality({ i \in 1..Len(Emitted) : IsBadData(Emitted[i]) })
PassesOk == Cardinality({ i \in 1..Len(rx) : rx[i] = "ok" })

\* C14: BadData is emitted only on the transition into the bad-data state:
\* between any two BadData events of the serial reader a frame decoded
\* successfully, and a run of consecutive failing frames produces exactly
\* one BadData.
C14_BadDataCoalesced ==
    /\ \A i \in 1..(Len(Emitted) - 1) : ~(IsBadData(Emitted[i]) /\ IsBadData(Emitted[i + 1]))
    /\ FramesEmitted = PassesOk
    /\ BadDataEmitted = FailRuns(rx)

\* C14 witness: two failing frames, a frame that decodes, a failing read:
\* BadData, the entry, BadData
C14_Witness ==
    /\ rx = <<"fail", "fail", "ok", "fail">>
    /\ loopq = <<>>
    /\ Len(queue) = 3
    /\ IsBadData(queue[1]) /\ IsEntryItem(queue[2]) /\ IsBadData(queue[3])

(***************************************************************************)
(*                 Unexpected continuation: properties                     *)
(***************************************************************************)

\* C15: a continuation frame that arrives with no pending log, or with a
\* log id other than pending_log_id, is rejected, and after the rejection
\* the reassembly state is "no pending log": the next first-frame starts a
\* fresh entry without producing an INCOMPLETE entry.
C15_RejectionClearsPending ==
    /\ lastcall.unexpected =>
           /\ pending_log_id = NoLog
           /\ pending_args = <<>>
           /\ pending_string_chunks = <<>>
    /\ ~lastcall.displacedAfter

(***************************************************************************)
(*                     Artifact watcher: properties                        *)
(***************************************************************************)

IsFailed(item) == item.kind = "ctl" /\ item.msg = "FAILED_TO_READ_ELF"
IsLoaded(item) == item.kind = "ctl" /\ item.msg \in {"ELF_OK", "RELOADED_ELF"}

\* C16: every artifact load failure is surfaced as exactly one
\* FAILED_TO_READ_ELF event, and the watcher's loop does not terminate
\* because of the failure.
C16_FailureSurfaced ==
    /\ Cardinality({ i \in 1..Len(queue) : IsFailed(queue[i]) }) = nfailed
    /\ wpc # "dead"

\* C17: a successful load from the initial or waiting state (waiting after
\* the artifact was removed, or after a failed load) emits ELF_OK;
\* RELOADED_ELF is emitted only from the ready state.
C17_OkUnlessReady ==
    \A i \in 1..Len(queue) :
        IsLoaded(queue[i]) => (queue[i].msg = "RELOADED_ELF" <=> queue[i].from = "ready")

IsReloaded(item) == item.kind = "ctl" /\ item.msg = "RELOADED_ELF"

\* C18: while the watcher is ready and the artifact's mtime equals the mtime
\* the watcher recorded at its last load, no load is made and no event is
\* emitted; each mtime change seen in the ready state and followed by a
\* successful load emits exactly one RELOADED_ELF event.
C18_ReloadOnlyOnChange ==
    /\ (wstate = "ready" /\ wpc \in {"load", "parse", "emit"}) => wmtime # last_mtime
    /\ \A i \in 1..Len(queue) :
          (IsLoaded(queue[i]) /\ queue[i].from = "ready") =>
              /\ queue[i].seen # queue[i].prev
              /\ Cardinality({ j \in 1..Len(queue) :
                                 IsReloaded(queue[j]) /\ queue[j].gen = queue[i].gen }) = 1
    /\ (wstate = "ready" /\ wpc = "poll") =>
          \E i \in 1..Len(queue) : IsLoaded(queue[i]) /\ queue[i].gen = gen

\* C18 witness: the artifact was loaded, changed and loaded again, and has
\* not changed since: one RELOADED_ELF for the second load
C18_Witness ==
    /\ wstate = "ready" /\ wpc = "poll"
    /\ gen = 2
    /\ file.build # "absent" /\ file.mtime = last_mtime
    /\ \E i \in 1..Len(queue) :
          IsReloaded(queue[i]) /\ queue[i].from = "ready" /\ queue[i].gen = 2

\* C19: the sha256 the consumer reads from a loaded or reloaded event is the
\* digest computed by the load that put that event on the queue.
C19_ShaOfProducingLoad ==
    \A i \in 1..Len(log_buffer) :
        log_buffer[i].kind = "elf" => log_buffer[i].sha256 = log_buffer[i].sent

Notes == { i \in 1..Len(log_buffer) : log_buffer[i].kind = "note" }

\* C20: a drain of the queue above the high-water mark leaves exactly one
\* note in the log buffer, and the note states the number of items the
\* drain flushed (the backlog overflows once here).
C20_OneNoteStatingCount ==
    Notes # {} =>
        /\ Cardinality(Notes) = 1
        /\ \A i \in Notes : log_buffer[i].stated = log_buffer[i].flushed

\* C21: a read that returns no byte, or the sentinel alone, schedules no
\* event and leaves the reader's bad_data flag as it was.
C21_EmptyReadSilent ==
    [][(rx' # rx /\ ReadUntil(stream) \in {<<>>, <<EOF>>})
          => (loopq' = loopq /\ bad_data' = bad_data)]_vars

\* the reassembly state without its queue of INCOMPLETE entries
Reassembly(st) == [pid |-> st.pid, args |-> st.args, chunks |-> st.chunks]

\* C22: with a table loaded and nothing queued, a decoded frame of one byte
\* makes decode_packet fail, a decoded frame of no byte makes it return
\* nothing, and neither changes the reassembly state.
C22_ShortFrameFails ==
    (lastcall.kind # "init" /\ lastcall.ready /\ lastcall.before.iq = <<>>
        /\ Len(lastcall.data) < 2) =>
        /\ Len(lastcall.data) = 1 => lastcall.kind = "raise"
        /\ Len(lastcall.data) = 0 => lastcall.kind = "none"
        /\ PendingState = lastcall.before

\* C23: a call that pops a queued INCOMPLETE entry also decodes the frame it
\* was given: the reassembly state it leaves is the one the frame produces
\* from the state before the call.
C23_FrameDecodedAfterPop ==
    lastcall.popped =>
        /\ lastcall.result.logmeta.filename = "INCOMPLETE"
        /\ Reassembly(PendingState)
             = Reassembly(decode_packet_on(lastcall.data, [lastcall.before EXCEPT !.iq = <<>>]).st)

\* the last call was made on a frame with a reserved id, with a table
\* loaded and no INCOMPLETE entry queued
OnReserved(id) ==
    /\ lastcall.kind # "init" /\ lastcall.ready /\ lastcall.before.iq = <<>>
    /\ Len(lastcall.data) >= 2 /\ FrameId(lastcall.data) = id

ArgDecoded ==
    /\ lastcall.kind \in {"entry", "none"} /\ lastcall.ready /\ lastcall.before.iq = <<>>
    /\ Len(lastcall.data) >= 2 /\ FrameId(lastcall.data) < Len(entries)
    /\ FrameFirst(lastcall.data) \/ lastcall.before.pid = FrameId(lastcall.data)

\* the site the last frame named, and the arguments collected for it
\* before that frame
LastSite == entries[FrameId(lastcall.data) + 1]
Held == IF FrameFirst(lastcall.data) THEN <<>> ELSE lastcall.before.args

IsPrefix(a, b) == Len(a) <= Len(b) /\ SubSeq(b, 1, Len(a)) = a

\* C29: decode_packet returns an entry exactly when the arguments collected
\* for the site number as many as its types (at once for a site without
\* arguments); the entry's arguments are those held before the frame
\* followed by the frame's own value, and pending_log_id, pending_args
\* and the chunk buffer are then cleared.
C29_EmittedWhenComplete ==
    ArgDecoded =>
        /\ lastcall.kind = "entry" =>
              /\ lastcall.result.logmeta = LastSite
              /\ Len(lastcall.result.data) = Len(LastSite.types)
              /\ IsPrefix(Held, lastcall.result.data)
              /\ Len(lastcall.result.data) <= Len(Held) + 1
              /\ (Len(lastcall.result.data) = Len(Held) + 1
                    /\ LastSite.types[Len(Held) + 1] # "TypeStr") =>
                    lastcall.result.data[Len(Held) + 1] =
                        StructUnpack(LastSite.types[Len(Held) + 1],
                                     SubSeq(FramePayload(lastcall.data), 1,
                                            TypeLen(LastSite.types[Len(Held) + 1])),
                                     endianness)
              /\ pending_log_id = NoLog /\ pending_args = <<>> /\ pending_string_chunks = <<>>
        /\ lastcall.kind = "none" =>
              /\ pending_log_id = FrameId(lastcall.data)
              /\ Len(pending_args) < Len(LastSite.types)
              /\ IsPrefix(Held, pending_args)
              /\ Len(pending_args) <= Len(Held) + 1

\* C29 witness: the second frame of the site with types [u16, u8] completed
\* the entry with the arguments 0x1234 and 7
C29_Witness ==
    /\ ArgDecoded /\ lastcall.kind = "entry"
    /\ ~FrameFirst(lastcall.data) /\ FrameId(lastcall.data) = 0
    /\ lastcall.result.data = << [int |-> 4660], [int |-> 7] >>
    /\ pending_log_id = NoLog /\ pending_args = <<>>

\* the last call decoded a frame whose argument is a string
StrDecoded ==
    /\ ArgDecoded
    /\ Len(Held) < Len(LastSite.types)
    /\ LastSite.types[Len(Held) + 1] = "TypeStr"

\* the chunks collected for that string before the frame
HeldChunks == IF FrameFirst(lastcall.data) THEN <<>> ELSE lastcall.before.chunks

HasNull(payload) == \E i \in 1..Len(payload) : payload[i] = 0

\* the bytes of a payload before its first null byte
UpToNull(payload) ==
    LET k == CHOOSE i \in 1..Len(payload) :
                 payload[i] = 0 /\ \A j \in 1..(i - 1) : payload[j] # 0
    IN SubSeq(payload, 1, k - 1)

C27_ClearOnlyIfOption ==
    [][(qhead < Len(queue) /\ qhead' = qhead + 1 /\ IsReloaded(queue[qhead + 1])) =>
          IF args_clear
          THEN \A i \in 1..Len(log_buffer') : log_buffer'[i].kind # "entry"
          ELSE IsPrefix(log_buffer, log_buffer')]_vars

\* the loads of the ulogger watcher that ended well, in order
Loads == { i \in 1..Len(queue) : IsLoaded(queue[i]) /\ queue[i].sha # None }

\* C28: two resets on the same section bytes build equal tables (as many
\* sites, and the same level, line, filename, format and types at every
\* index), whatever table was loaded in between or before.
C28_ReloadIdempotent ==
    \A i, j \in Loads :
        queue[i].sha = queue[j].sha =>
            /\ Len(queue[i].table) = Len(queue[j].table)
            /\ \A k \in 1..Len(queue[i].table) :
                  /\ queue[i].table[k].level = queue[j].table[k].level
                  /\ queue[i].table[k].line = queue[j].table[k].line
                  /\ queue[i].table[k].filename = queue[j].table[k].filename
                  /\ queue[i].table[k].fmt = queue[j].table[k].fmt
                  /\ queue[i].table[k].types = queue[j].table[k].types

\* C28 witness: the same bytes were loaded twice with other bytes loaded in
\* between, and the three tables are not all equal
C28_Witness ==
    \E i, j, k \in Loads :
        /\ i < j /\ j < k
        /\ queue[i].sha = queue[k].sha /\ queue[i].sha # queue[j].sha
        /\ queue[i].table = queue[k].table /\ queue[i].table # queue[j].table
        /\ queue[i].table # <<>>

\* a failed attempt to open the port has been reported
FailureReported ==
    \E i \in 1..Len(status_queue) :
        \/ status_queue[i].status = "PORT_RETRY"
        \/ status_queue[i].status = "PORT_ERROR" /\ status_queue[i].data # "Read error"
        \/ status_queue[i].status = "COMMAND_RESPONSE" /\ ~status_queue[i].success

\* C25: a failed attempt to open the port is reported on the status queue.
C25_FailedOpenReported == (tpc.cmd = "cancel_retry") ~> FailureReported

\* C26: once the stop flag of the serial reader is set its run function
\* returns.
C26_StopReturns == stop_event ~> (tpc.main = "returned")

\* the frame the reader is about to take off the line, and its decoding
NextRaw == ReadUntil(stream)
NextDecoded == cobs_decode(NextRaw).data
NextWellFramed == Len(NextRaw) >= 2 /\ ~cobs_decode(NextRaw).raised

\* that frame carries an ordinary log id the table does not have
NextBadId ==
    /\ NextWellFramed /\ elf_ready /\ incomplete_log_queue = <<>>
    /\ Len(NextDecoded) >= 2
    /\ FrameId(NextDecoded) \notin {OVERRUN_ID, START_ID}
    /\ FrameId(NextDecoded) >= Len(entries)

PendingKept ==
    /\ pending_log_id' = pending_log_id /\ pending_args' = pending_args
    /\ pending_string_chunks' = pending_string_chunks
    /\ incomplete_log_queue' = incomplete_log_queue

NoEntryScheduled ==
    \A i \in 1..Len(loopq') : i > Len(loopq) => loopq'[i].kind # "log"

\* C31: a frame read while the table is not ready, or carrying an ordinary
\* log id not below the table length, gives no entry and leaves
\* pending_log_id, pending_args, the chunk buffer and the incomplete queue
\* as they were; the frame read while the table is not ready also schedules
\* no BAD_DATA and leaves bad_data alone.
C31_RejectedFramesLeaveState ==
    [][(rx' # rx) =>
          /\ (NextWellFramed /\ ~elf_ready) =>
                (PendingKept /\ loopq' = loopq /\ bad_data' = bad_data)
          /\ NextBadId => (PendingKept /\ NoEntryScheduled)]_vars

\* C31 witness: a frame was dropped before the table was ready, and a frame
\* with an unknown log id arrived after a first frame had left an entry
\* pending
C31_Witness ==
    /\ rx = <<"notready", "ok", "fail">>
    /\ Len(items) = 3 /\ items[3] = cobs_encode(Hdr(TRUE, 4) \o <<1>>)
    /\ pending_log_id = 0
    /\ stream = <<>>

\* nibble i (from 1, least significant first) of the word last decoded; the
\* nibbles above those given are zero
TcNib(i) == IF i <= Len(call.nibs) THEN call.nibs[i] ELSE 0

\* number of nibbles before the first zero nibble, at most 8
TcCount ==
    IF \E i \in 1..8 : TcNib(i) = 0
    THEN (CHOOSE i \in 1..8 : TcNib(i) = 0 /\ \A j \in 1..(i - 1) : TcNib(j) # 0) - 1
    ELSE 8

RECURSIVE TcFixedSum(_)
TcFixedSum(types) ==
    IF types = <<>> THEN 0
    ELSE (IF types[1] = "TypeStr" THEN 0 ELSE TypeLen(types[1])) + TcFixedSum(Tail(types))

ConsumerInside == {"a0", "a1", "a2", "a3", "a4", "a5"}
RefreshInside == {"keys", "refresh", "pad", "padout", "bar", "done"}

\* C33: while the consumer appends to or replaces the buffer it holds
\* buffer_lock, while the refresh thread reads the buffer it holds
\* buffer_lock, and no read ran between two statements of an append.
C33_BufferUnderLock ==
    /\ vpc.consumer \in ConsumerInside => buffer_lock.owner = "consumer"
    /\ vpc.refresh \in RefreshInside => buffer_lock.owner = "refresh"
    /\ ~vpc.torn

\* C33 witness: the refresh thread, holding the lock twice, has read a
\* buffer the consumer had wrapped
C33_Witness ==
    /\ vpc.refresh = "padout" /\ buffer_lock = [owner |-> "refresh", depth |-> 2]
    /\ ret.op = "reversed" /\ Len(ret.res) = ViewCap
    /\ next_abs_index > ViewCap
    /\ vpc.consumer = "idle"

\* C34: the BufferedQueue never holds more than maxsize frames, and a put
\* on a full buffer leaves a dropped marker and the put frame in the buffer.
C34_FullPutStoresFrame ==
    /\ Len(data_buffer) <= MaxQueue
    /\ rd.lastput.full => (rd.lastput.marked /\ rd.lastput.stored)

\* the batches get_all_frames has returned
Batches == { i \in 1..Len(status_queue) : status_queue[i].status = "DATA_READY" }

\* C35: get_all_frames returns every buffered frame once, in the order in
\* which the frames were put.
C35_FramesInPutOrder ==
    \A b \in Batches :
        LET m == status_queue[b]
        IN /\ Len(m.frames) = Len(m.held)
           /\ \A i \in 1..Len(m.held) : \E j \in 1..Len(m.frames) : m.frames[j] = m.held[i]
           /\ \A i, j \in 1..Len(m.frames) : i < j => m.frames[i].n < m.frames[j].n

\* C36: the command thread never waits in _cancel_retry for _retry_lock
\* while it holds that lock itself (a failed open_port does not block it).
C36_NoSelfDeadlock == ~(tpc.cmd = "cancel_retry" /\ retry_lock = "cmd")

\* C37: while no log is pending, no arguments and no string chunks are held.
C37_NothingHeldWithoutPending ==
    (pending_log_id = NoLog) => (pending_args = <<>> /\ pending_string_chunks = <<>>)

\* C37 witness: a call found a pending log with an argument held, returned
\* its entry and left no log pending
C37_Witness ==
    /\ lastcall.before.pid # NoLog
    /\ lastcall.before.args # <<>>
    /\ lastcall.kind = "entry"
    /\ pending_log_id = NoLog

\* C38: while no reload is in progress, a pending log id is an index into
\* the current table, and fewer arguments are held than that site has types.
C38_PendingIndexValid ==
    (pending_log_id # NoLog /\ wpc = "poll") =>
        /\ pending_log_id < Len(entries)
        /\ Len(pending_args) < Len(entries[pending_log_id + 1].types)

\* C39: outside a running reset, elf_ready goes with entries being the
\* complete table of a build that loads.
C39_ReadyMeansCompleteTable ==
    (elf_ready /\ wpc # "parse") => entries \in { TableOf(b) : b \in Builds }

\* C40: once the watcher waits for the artifact and a loadable file is at
\* the path, the watcher comes to load it and announce it (unless the file
\* is removed or spoilt again first).
C40_ReappearedIsLoaded ==
    (wstate = "waiting" /\ file.build \in Builds)
        ~> (wstate = "ready" \/ file.build \notin Builds)

====
